---------------------------- MODULE Spec2Model ----------------------------
(***************************************************************************)
(* A state-machine model of the Lumi NES core (crates/emu-nes, emu-core):  *)
(* the memory bus, PPU, APU, controllers, cartridge, 6502 CPU and the      *)
(* system clock that binds them.  Rust structs are records whose fields    *)
(* keep the source's names; Rust methods are operators that take the       *)
(* struct and return the updated struct (and a value where the method      *)
(* returns one).                                                           *)
(***************************************************************************)
EXTENDS Integers, Sequences, FiniteSets, TLC

VARIABLES
    cpu,      \* Cpu6502<NesMemory>: registers, cycle counter and the owned bus
    frame,    \* NesSystem.frame
    host,     \* the caller's position: which entry point is running, its locals
    ret,      \* what the last entry point returned to the caller
    profile   \* the build profile, which decides whether integer overflow panics

vars == <<cpu, frame, host, ret, profile>>

---------------------------------------------------------------------------
(* Fixed-width integer helpers.                                            *)

Byte == 0 .. 255

RECURSIVE BitAnd(_, _)
BitAnd(a, b) ==
    IF a = 0 \/ b = 0 THEN 0
    ELSE (a % 2) * (b % 2) + 2 * BitAnd(a \div 2, b \div 2)

RECURSIVE BitOr(_, _)
BitOr(a, b) ==
    IF a = 0 THEN b
    ELSE IF b = 0 THEN a
    ELSE (IF a % 2 = 1 \/ b % 2 = 1 THEN 1 ELSE 0) + 2 * BitOr(a \div 2, b \div 2)

RECURSIVE BitXor(_, _)
BitXor(a, b) ==
    IF a = 0 THEN b
    ELSE IF b = 0 THEN a
    ELSE ((a + b) % 2) + 2 * BitXor(a \div 2, b \div 2)

\* u8 / u16 wrapping arithmetic
Wrap8(n) == n % \h100
Wrap16(n) == n % \h10000

\* `let v = <expr>;`: the value is computed once and named in Body
Bind(v, Body(_)) == Body(v)

\* `x & (1 << n) != 0`
TestBit(x, n) == (x \div (2 ^ n)) % 2 = 1

\* Arrays that start all-zero ([0; N], vec![0; N]) are kept as the map of
\* their non-zero cells.
Load(arr, i) == IF i \in DOMAIN arr THEN arr[i] ELSE 0

Store(arr, i, v) ==
    IF v = 0 THEN [j \in (DOMAIN arr) \ {i} |-> arr[j]]
    ELSE [j \in (DOMAIN arr) \cup {i} |-> IF j = i THEN v ELSE arr[j]]

Zeroed == [j \in {} |-> 0]

---------------------------------------------------------------------------
(* ROM images.  A cartridge's PRG and CHR arrays never change after load   *)
(* (cartridge.rs:140-145), so the cartridge record carries the name of its *)
(* image and the bytes are read from the image.  PRG is filled with NOP    *)
(* ($EA) as in the repository's tests (system.rs:197), with the interrupt  *)
(* vectors and a program patched in.                                       *)

\* <<offset into PRG, bytes>> patches of each image.
\*   "test"   system.rs's test_system_step: LDA #$42; STA $00; then NOPs; only
\*            the reset vector is set.
\*   "nrom16" enables NMI, then loops over six INC $0201,X, an LDA $0201,X
\*            that crosses a page, and a BNE; the NMI handler at $9000 is
\*            INC $10; RTI.
\*   "nrom32" loops 256 times over JSR $8010 (PHA; PLA; RTS); INC $00; BNE,
\*            then meets the undefined opcode $02, followed by JMP $8000.
\*   "gxrom"  bank 0 writes $11 to the bank register and continues in bank 1,
\*            which writes $00 and continues in bank 0 with a BRK whose
\*            handler at $9000 is RTI, then JMP $8000.
ImagePatches(image) ==
    CASE image = "test" ->
           << <<\h0000, << \hA9, \h42, \h85, \h00 >> >>,
              <<\h3FFC, << \h00, \h80 >> >> >>
      [] image = "nrom16" ->
           << <<\h0000, << \hA9, \h80, \h8D, \h00, \h20, \hA2, \hFF,
                           \hFE, \h01, \h02, \hFE, \h01, \h02, \hFE, \h01, \h02,
                           \hFE, \h01, \h02, \hFE, \h01, \h02, \hFE, \h01, \h02,
                           \hBD, \h01, \h02, \hD0, \hE9, \h4C, \h07, \h80 >> >>,
              <<\h1000, << \hE6, \h10, \h40 >> >>,
              <<\h3FFA, << \h00, \h90, \h00, \h80, \h00, \h90 >> >> >>
      [] image = "nrom32" ->
           << <<\h0000, << \h20, \h10, \h80, \hE6, \h00, \hD0, \hF9, \h02,
                           \h4C, \h00, \h80 >> >>,
              <<\h0010, << \h48, \h68, \h60 >> >>,
              <<\h1000, << \h40 >> >>,
              <<\h7FFA, << \h00, \h90, \h00, \h80, \h00, \h90 >> >> >>
      [] image = "gxrom" ->
           << <<\h0000, << \hA9, \h11, \h8D, \h00, \h80, \h00, \hEA, \h4C, \h00, \h80 >> >>,
              <<\h1000, << \h40 >> >>,
              <<\h7FFA, << \h00, \h90, \h00, \h80, \h00, \h90 >> >>,
              <<\h8000, << \hA9, \h00, \h8D, \h00, \h80, \h4C, \h00, \h80 >> >>,
              <<\h9000, << \h40 >> >>,
              <<\hFFFA, << \h00, \h90, \h00, \h80, \h00, \h90 >> >> >>
      [] OTHER -> << >>

PrgFill == \hEA

\* prg_rom.len()
PrgLen(image) ==
    CASE image = "nrom16" -> \h4000
      [] image = "nrom32" -> \h8000
      [] image = "gxrom"  -> \h10000
      [] OTHER -> \h4000

\* prg_rom[i]
PrgByte(image, i) ==
    Bind(ImagePatches(image), LAMBDA P :
    Bind({ k \in DOMAIN P : i >= P[k][1] /\ i < P[k][1] + Len(P[k][2]) }, LAMBDA hit :
        IF hit = {} THEN PrgFill
        ELSE Bind(CHOOSE k \in hit : TRUE, LAMBDA k : P[k][2][i - P[k][1] + 1])))

\* chr_rom.len(): 8 KiB banks, or 8 KiB of CHR-RAM when the header has none
ChrLen(image) == IF image = "gxrom" THEN \h4000 ELSE \h2000

\* chr_rom[i]: each CHR-ROM bank has its own pattern; CHR-RAM starts zeroed
ChrByte(image, i) ==
    CASE image = "gxrom"  -> ((i \div \h2000) + 1) * 16 + (i % 16)
      [] image = "nrom32" -> (i * 7 + 3) % 256
      [] OTHER -> 0

\* INesHeader of each image (cartridge.rs:21-34)
ImageHeader(image) ==
    CASE image = "nrom32" ->
           [prg_rom_banks |-> 2, chr_rom_banks |-> 1, mapper |-> 0,
            mirroring |-> "Vertical", has_battery |-> FALSE, has_trainer |-> FALSE]
      [] image = "gxrom" ->
           [prg_rom_banks |-> 4, chr_rom_banks |-> 2, mapper |-> 66,
            mirroring |-> "Horizontal", has_battery |-> FALSE, has_trainer |-> FALSE]
      [] OTHER ->
           [prg_rom_banks |-> 1, chr_rom_banks |-> 1, mapper |-> 0,
            mirroring |-> "Horizontal", has_battery |-> FALSE, has_trainer |-> FALSE]

---------------------------------------------------------------------------
(* Arithmetic whose overflow is checked in debug builds and wraps in       *)
(* release builds.  A result is [v |-> value, panic |-> BOOLEAN].          *)

Profiles == {"debug", "release"}

\* u16 `a - b`
SubU16(a, b) ==
    IF a >= b THEN [v |-> a - b, panic |-> FALSE]
    ELSE IF profile = "debug" THEN [v |-> 0, panic |-> TRUE]
    ELSE [v |-> a - b + \h10000, panic |-> FALSE]

---------------------------------------------------------------------------
(* Cartridge (cartridge.rs)                                                *)

MapperStateDefault == [prg_bank |-> 0, chr_bank |-> 0]

\* Cartridge::load, as far as the bus sees it
CartridgeLoad(image) ==
    [image |-> image, header |-> ImageHeader(image), mapper_state |-> MapperStateDefault]

\* The result of a read that may panic: [v, panic]
Ok(v) == [v |-> v, panic |-> FALSE]

\* A wrong mapping: a 16 KiB PRG is not mirrored at $C000
read_prg_mapper0_linear(cart, addr) ==
    Bind(SubU16(addr, \h8000), LAMBDA d :
        IF d.panic THEN d
        ELSE Ok(IF d.v < PrgLen(cart.image) THEN PrgByte(cart.image, d.v) ELSE \hFF))

read_prg_mapper0(cart, addr) ==
    IF PrgLen(cart.image) <= \h4000
    THEN LET rom_addr == BitAnd(addr, \h3FFF)
         IN  Ok(IF rom_addr < PrgLen(cart.image) THEN PrgByte(cart.image, rom_addr) ELSE \hFF)
    ELSE Bind(SubU16(addr, \h8000), LAMBDA d :
             IF d.panic THEN d
             ELSE Ok(IF d.v < PrgLen(cart.image) THEN PrgByte(cart.image, d.v) ELSE \hFF))

read_prg_mapper66(cart, addr) ==
    Bind(SubU16(addr, \h8000), LAMBDA d :
        LET bank == cart.mapper_state.prg_bank
            rom_addr == bank * \h8000 + d.v
        IN  IF d.panic THEN d
            ELSE Ok(IF rom_addr < PrgLen(cart.image) THEN PrgByte(cart.image, rom_addr) ELSE \hFF))

read_prg(cart, addr) ==
    CASE cart.header.mapper = 0  -> read_prg_mapper0(cart, addr)
      [] cart.header.mapper = 66 -> read_prg_mapper66(cart, addr)
      [] OTHER -> Ok(\hFF)

\* Cartridge::read_chr
read_chr(cart, addr) ==
    CASE cart.header.mapper = 0 ->
           IF addr < ChrLen(cart.image) THEN ChrByte(cart.image, addr) ELSE 0
      [] cart.header.mapper = 66 ->
           LET chr_addr == cart.mapper_state.chr_bank * \h2000 + addr
           IN  IF chr_addr < ChrLen(cart.image) THEN ChrByte(cart.image, chr_addr) ELSE 0
      [] OTHER -> 0

write_prg_mapper66(cart, addr, value) ==
    [cart EXCEPT !.mapper_state =
        [prg_bank |-> BitAnd(value \div 16, \h03), chr_bank |-> BitAnd(value, \h03)]]

write_prg(cart, addr, value) ==
    CASE cart.header.mapper = 0  -> cart
      [] cart.header.mapper = 66 -> write_prg_mapper66(cart, addr, value)
      [] OTHER -> cart

---------------------------------------------------------------------------
(* Controller (emu-core types.rs)                                          *)

ControllerNew == [state |-> [buttons |-> 0], shift_register |-> 0, strobe |-> FALSE]

ControllerWrite(c, value) ==
    LET new_strobe == BitAnd(value, 1) # 0
        latched == IF c.strobe /\ ~new_strobe
                   THEN [c EXCEPT !.shift_register = c.state.buttons]
                   ELSE c
    IN  [latched EXCEPT !.strobe = new_strobe]

\* Controller::state().set(button, pressed)
ControllerSet(c, button, pressed) ==
    [c EXCEPT !.state.buttons = IF pressed THEN BitOr(@, button) ELSE BitAnd(@, \hFF - button)]

\* A wrong shift: zeroes are shifted in behind the latched mask
ControllerRead_zero_fill(c) ==
    IF c.strobe
    THEN [c |-> c, v |-> BitAnd(c.state.buttons, 1)]
    ELSE [c |-> [c EXCEPT !.shift_register = c.shift_register \div 2],
          v |-> BitAnd(c.shift_register, 1)]

\* returns [c |-> controller, v |-> byte]
ControllerRead(c) ==
    IF c.strobe
    THEN [c |-> c, v |-> BitAnd(c.state.buttons, 1)]
    ELSE [c |-> [c EXCEPT !.shift_register = BitOr(c.shift_register \div 2, \h80)],
          v |-> BitAnd(c.shift_register, 1)]

---------------------------------------------------------------------------
(* PPU (ppu.rs)                                                            *)

\* bitflags helpers: flags are the u8 of their bits
insert(flags, f) == BitOr(flags, f)
remove(flags, f) == BitAnd(flags, \hFF - f)
contains(flags, f) == BitAnd(flags, f) = f

\* PpuCtrl
VRAM_INCREMENT == \h04
SPRITE_PATTERN == \h08
BG_PATTERN == \h10
SPRITE_SIZE == \h20
NMI_ENABLE == \h80
\* PpuMask
SHOW_BG == \h08
SHOW_SPRITES == \h10
\* PpuStatus
SPRITE_OVERFLOW == \h20
SPRITE_ZERO_HIT == \h40
VBLANK == \h80

\* The PPU's own copy of the pattern tables (chr_rom: Vec<u8>): `len` bytes
\* copied from `image` at offset `base`, then overwritten at the cells of
\* `delta`.
ChrVec(image, base, len) == [image |-> image, base |-> base, len |-> len, delta |-> Zeroed]

ChrGet(chr, i) ==
    IF i \in DOMAIN chr.delta THEN chr.delta[i] ELSE ChrByte(chr.image, chr.base + i)

ChrPut(chr, i, v) ==
    IF v = ChrByte(chr.image, chr.base + i)
    THEN [chr EXCEPT !.delta = [j \in (DOMAIN chr.delta) \ {i} |-> chr.delta[j]]]
    ELSE [chr EXCEPT !.delta =
            [j \in (DOMAIN chr.delta) \cup {i} |-> IF j = i THEN v ELSE chr.delta[j]]]

\* chr_rom.get(i).copied().unwrap_or(0)
ChrGetOr0(chr, i) == IF i < chr.len THEN ChrGet(chr, i) ELSE 0

PpuNew ==
    [ctrl |-> 0, mask |-> 0, status |-> 0, oam_addr |-> 0,
     vram_addr |-> 0, temp_vram_addr |-> 0, fine_x |-> 0, write_latch |-> FALSE,
     read_buffer |-> 0,
     vram |-> Zeroed, palette |-> Zeroed, oam |-> Zeroed,
     chr_rom |-> ChrVec("zero", 0, \h2000),
     scanline |-> 0, cycle |-> 0, frame |-> 0,
     framebuffer |-> Zeroed,
     nmi_interrupt |-> FALSE]

load_chr_rom(ppu, image, len) == [ppu EXCEPT !.chr_rom = ChrVec(image, 0, len)]

\* Every source is a whole number of 8 KiB banks (cartridge.rs:129-138), so
\* the copy is either a whole bank or nothing.
load_chr_bank(ppu, image, bank) ==
    LET offset == bank * \h2000
        srclen == ChrLen(image)
        sat == IF srclen >= offset THEN srclen - offset ELSE 0
        len == IF sat < \h2000 THEN sat ELSE \h2000
    IN  IF len > 0 /\ offset < srclen
        THEN [ppu EXCEPT !.chr_rom =
                [image |-> image, base |-> offset, len |-> ppu.chr_rom.len,
                 delta |-> [j \in { k \in DOMAIN ppu.chr_rom.delta : k >= len }
                               |-> ppu.chr_rom.delta[j]]]]
        ELSE ppu

mirror_nametable(addr) ==
    LET a == BitAnd(addr - \h2000, \h0FFF)
    IN  BitAnd(a, \h07FF)

increment_vram_addr(ppu) ==
    LET increment == IF contains(ppu.ctrl, VRAM_INCREMENT) THEN 32 ELSE 1
    IN  [ppu EXCEPT !.vram_addr = BitAnd(Wrap16(ppu.vram_addr + increment), \h3FFF)]

\* returns [ppu, v]
read_vram(ppu) ==
    LET addr == BitAnd(ppu.vram_addr, \h3FFF)
        result == ppu.read_buffer
    IN  IF addr >= \h3F00
        THEN LET palette_addr == BitAnd(addr - \h3F00, \h1F)
                 mirror_addr == mirror_nametable(addr)
             IN  [ppu |-> [ppu EXCEPT !.read_buffer = Load(ppu.vram, mirror_addr)],
                  v |-> Load(ppu.palette, palette_addr)]
        ELSE LET fetched == IF addr <= \h1FFF THEN ChrGet(ppu.chr_rom, addr)
                            ELSE Load(ppu.vram, mirror_nametable(addr))
             IN  [ppu |-> increment_vram_addr([ppu EXCEPT !.read_buffer = fetched]),
                  v |-> result]

\* A wrong palette store: $3F10/$14/$18/$1C keep cells of their own
write_vram_no_alias(ppu, value) ==
    LET addr == BitAnd(ppu.vram_addr, \h3FFF)
    IN  IF addr <= \h1FFF
        THEN IF ppu.chr_rom.len <= \h2000
             THEN [ppu EXCEPT !.chr_rom = ChrPut(ppu.chr_rom, addr, value)]
             ELSE ppu
        ELSE IF addr <= \h3EFF
        THEN [ppu EXCEPT !.vram = Store(ppu.vram, mirror_nametable(addr), value)]
        ELSE [ppu EXCEPT !.palette = Store(ppu.palette, BitAnd(addr - \h3F00, \h1F), value)]

write_vram(ppu, value) ==
    LET addr == BitAnd(ppu.vram_addr, \h3FFF)
    IN  IF addr <= \h1FFF
        THEN IF ppu.chr_rom.len <= \h2000
             THEN [ppu EXCEPT !.chr_rom = ChrPut(ppu.chr_rom, addr, value)]
             ELSE ppu
        ELSE IF addr <= \h3EFF
        THEN [ppu EXCEPT !.vram = Store(ppu.vram, mirror_nametable(addr), value)]
        ELSE LET p0 == BitAnd(addr - \h3F00, \h1F)
                 palette_addr == IF p0 >= \h10 /\ BitAnd(p0, \h03) = 0 THEN p0 - \h10 ELSE p0
             IN  [ppu EXCEPT !.palette = Store(ppu.palette, palette_addr, value)]

\* returns [ppu, v]
\* A wrong decode: the registers repeat every 7 bytes instead of every 8
register_index_mod7(addr) == (addr - \h2000) % 7

\* `addr & 0x07`, the register an address in $2000-$3FFF selects
register_index(addr) == BitAnd(addr, \h07)

\* read_register whose STATUS read leaves the write latch alone
read_register_keeps_latch(ppu, addr) ==
    LET reg == register_index(addr)
    IN  CASE reg = 2 ->
               [ppu |-> [ppu EXCEPT !.status = remove(ppu.status, VBLANK)],
                v |-> ppu.status]
          [] reg = 4 -> [ppu |-> ppu, v |-> Load(ppu.oam, ppu.oam_addr)]
          [] reg = 7 -> read_vram(ppu)
          [] OTHER -> [ppu |-> ppu, v |-> 0]

read_register(ppu, addr) ==
    LET reg == register_index(addr)
    IN  CASE reg = 2 ->
               [ppu |-> [ppu EXCEPT !.status = remove(ppu.status, VBLANK),
                                    !.write_latch = FALSE],
                v |-> ppu.status]
          [] reg = 4 -> [ppu |-> ppu, v |-> Load(ppu.oam, ppu.oam_addr)]
          [] reg = 7 -> read_vram(ppu)
          [] OTHER -> [ppu |-> ppu, v |-> 0]

write_register(ppu, addr, value) ==
    LET reg == register_index(addr)
        t == ppu.temp_vram_addr
    IN  CASE reg = 0 ->
               [ppu EXCEPT !.ctrl = value,
                           !.temp_vram_addr =
                               BitOr(BitAnd(t, \hF3FF), BitAnd(value, \h03) * \h400)]
          [] reg = 1 -> [ppu EXCEPT !.mask = value]
          [] reg = 2 -> ppu
          [] reg = 3 -> [ppu EXCEPT !.oam_addr = value]
          [] reg = 4 ->
               [ppu EXCEPT !.oam = Store(ppu.oam, ppu.oam_addr, value),
                           !.oam_addr = Wrap8(ppu.oam_addr + 1)]
          [] reg = 5 ->
               IF ~ppu.write_latch
               THEN [ppu EXCEPT !.fine_x = BitAnd(value, \h07),
                                !.temp_vram_addr = BitOr(BitAnd(t, \hFFE0), value \div 8),
                                !.write_latch = TRUE]
               ELSE LET t1 == BitOr(BitAnd(t, \h8FFF), BitAnd(value, \h07) * \h1000)
                        t2 == BitOr(BitAnd(t1, \hFC1F), BitAnd(value, \hF8) * 4)
                    IN  [ppu EXCEPT !.temp_vram_addr = t2, !.write_latch = FALSE]
          [] reg = 6 ->
               IF ~ppu.write_latch
               THEN [ppu EXCEPT !.temp_vram_addr =
                                    BitOr(BitAnd(t, \h00FF), BitAnd(value, \h3F) * \h100),
                                !.write_latch = TRUE]
               ELSE LET t1 == BitOr(BitAnd(t, \hFF00), value)
                    IN  [ppu EXCEPT !.temp_vram_addr = t1, !.vram_addr = t1,
                                    !.write_latch = FALSE]
          [] reg = 7 ->
               LET w == write_vram(ppu, value)
                   increment == IF contains(ppu.ctrl, VRAM_INCREMENT) THEN 32 ELSE 1
               IN  [w EXCEPT !.vram_addr = Wrap16(w.vram_addr + increment)]

read_vram_direct(ppu, addr0) ==
    LET addr == BitAnd(addr0, \h3FFF)
    IN  IF addr <= \h1FFF THEN ChrGetOr0(ppu.chr_rom, addr)
        ELSE IF addr <= \h3EFF THEN Load(ppu.vram, mirror_nametable(addr))
        ELSE Load(ppu.palette, BitAnd(addr - \h3F00, \h1F))

is_rendering(ppu) == contains(ppu.mask, SHOW_BG) \/ contains(ppu.mask, SHOW_SPRITES)

get_background_pixel(ppu, x, y) ==
    LET t == ppu.temp_vram_addr
        coarse_x == BitAnd(t, \h001F)
        coarse_y == BitAnd(t, \h03E0) \div 32
        fine_y == BitAnd(t, \h7000) \div \h1000
        nametable_select == BitAnd(t, \h0C00) \div \h400
        scroll_x == x + ppu.fine_x + coarse_x * 8
        scroll_y == y + fine_y + coarse_y * 8
        tile_x == (scroll_x \div 8) % 32
        tile_y == (scroll_y \div 8) % 30
        pixel_x == scroll_x % 8
        pixel_y == scroll_y % 8
        nametable_base == BitOr(\h2000, nametable_select * \h400)
        attr_addr == nametable_base + \h03C0 + ((tile_y \div 4) * 8 + (tile_x \div 4))
        attr_shift == ((tile_y % 4) \div 2) * 4 + ((tile_x % 4) \div 2) * 2
        pattern_table_base == IF contains(ppu.ctrl, BG_PATTERN) THEN \h1000 ELSE \h0000
        bit_pos == 7 - pixel_x
    IN  Bind(read_vram_direct(ppu, nametable_base + (tile_y * 32 + tile_x)), LAMBDA tile_index :
        Bind(read_vram_direct(ppu, attr_addr), LAMBDA attr_byte :
        Bind(pattern_table_base + tile_index * 16, LAMBDA tile_addr :
        Bind(ChrGetOr0(ppu.chr_rom, tile_addr + pixel_y), LAMBDA low_byte :
        Bind(ChrGetOr0(ppu.chr_rom, tile_addr + 8 + pixel_y), LAMBDA high_byte :
        Bind(BitOr(BitAnd(high_byte \div (2 ^ bit_pos), \h01) * 2,
                   BitAnd(low_byte \div (2 ^ bit_pos), \h01)), LAMBDA pixel_value :
            IF pixel_value = 0 THEN Load(ppu.palette, 0)
            ELSE Load(ppu.palette,
                      BitAnd(attr_byte \div (2 ^ attr_shift), \h03) * 4 + pixel_value)))))))

\* One iteration of get_sprite_pixel's loop, for sprite sprite_idx: returns
\* <<palette_index, is_visible, has_priority>>, with is_visible FALSE where
\* the loop executes `continue`
sprite_pixel_at(ppu, x, y, sprite_idx) ==
    LET oam_offset == sprite_idx * 4
        sprite_y == Load(ppu.oam, oam_offset)
        tile_index == Load(ppu.oam, oam_offset + 1)
        attributes == Load(ppu.oam, oam_offset + 2)
        sprite_x == Load(ppu.oam, oam_offset + 3)
        sprite_height == IF contains(ppu.ctrl, SPRITE_SIZE) THEN 16 ELSE 8
        sprite_y_end == sprite_y + sprite_height
    IN  IF y < sprite_y \/ y >= sprite_y_end \/ x < sprite_x \/ x >= sprite_x + 8
        THEN <<0, FALSE, FALSE>>
        ELSE
        LET px0 == x - sprite_x
            py0 == y - sprite_y
            pixel_x == IF BitAnd(attributes, \h40) # 0 THEN 7 - px0 ELSE px0
            pixel_y == IF BitAnd(attributes, \h80) # 0 THEN (sprite_height - 1) - py0 ELSE py0
            pattern_table_base == IF contains(ppu.ctrl, SPRITE_PATTERN) THEN \h1000 ELSE \h0000
            tile_addr == pattern_table_base + tile_index * 16
            low_byte == ChrGetOr0(ppu.chr_rom, tile_addr + pixel_y)
            high_byte == ChrGetOr0(ppu.chr_rom, tile_addr + 8 + pixel_y)
            bit_pos == 7 - pixel_x
            pixel_low == BitAnd(low_byte \div (2 ^ bit_pos), \h01)
            pixel_high == BitAnd(high_byte \div (2 ^ bit_pos), \h01)
            pixel_value == BitOr(pixel_high * 2, pixel_low)
            palette_num == BitAnd(attributes, \h03)
            palette_addr == \h10 + palette_num * 4 + pixel_value
            behind_bg == BitAnd(attributes, \h20) # 0
        IN  IF pixel_value = 0
            THEN <<0, FALSE, FALSE>>
            ELSE <<Load(ppu.palette, palette_addr), TRUE, ~behind_bg>>

\* the loop over OAM from sprite_idx: the first sprite that does not
\* `continue` is returned
get_sprite_pixel_from(ppu, x, y, sprite_idx) ==
    LET hits == {i \in sprite_idx .. 63 : sprite_pixel_at(ppu, x, y, i)[2]}
    IN  IF hits = {} THEN <<0, FALSE, FALSE>>
        ELSE sprite_pixel_at(ppu, x, y, CHOOSE i \in hits : \A j \in hits : i <= j)

get_sprite_pixel(ppu, x, y) == get_sprite_pixel_from(ppu, x, y, 0)

render_pixel(ppu) ==
    LET x == ppu.cycle - 1
        y == ppu.scanline
        pixel_index == y * 256 + x
    IN  Bind(IF contains(ppu.mask, SHOW_BG) THEN get_background_pixel(ppu, x, y) ELSE 0,
             LAMBDA bg_pixel :
        Bind(IF contains(ppu.mask, SHOW_SPRITES) THEN get_sprite_pixel(ppu, x, y)
             ELSE <<0, FALSE, FALSE>>,
             LAMBDA sprite_pixel :
        Bind(IF sprite_pixel[2] /\ (sprite_pixel[3] \/ BitAnd(bg_pixel, \h03) = 0)
             THEN sprite_pixel[1]
             ELSE bg_pixel,
             LAMBDA palette_index :
            IF x >= 256 \/ y >= 240 THEN ppu
            ELSE [ppu EXCEPT !.framebuffer = Store(ppu.framebuffer, pixel_index, palette_index)])))

\* A wrong tick: VBlank starts one scanline early
tick_vblank_at_240(ppu) ==
    Bind(IF ppu.scanline < 240 /\ is_rendering(ppu) /\ ppu.cycle > 0 /\ ppu.cycle <= 256
         THEN render_pixel(ppu)
         ELSE ppu,
         LAMBDA p1 :
    Bind(IF p1.cycle + 1 > 340
         THEN IF p1.scanline + 1 > 261
              THEN [p1 EXCEPT !.cycle = 0, !.scanline = 0, !.frame = p1.frame + 1]
              ELSE [p1 EXCEPT !.cycle = 0, !.scanline = p1.scanline + 1]
         ELSE [p1 EXCEPT !.cycle = p1.cycle + 1],
         LAMBDA p2 :
    Bind(IF p2.scanline = 240 /\ p2.cycle = 1
         THEN [p2 EXCEPT !.status = insert(p2.status, VBLANK),
                         !.nmi_interrupt =
                             IF contains(p2.ctrl, NMI_ENABLE) THEN TRUE ELSE p2.nmi_interrupt]
         ELSE p2,
         LAMBDA p3 :
        IF p3.scanline = 261 /\ p3.cycle = 1
        THEN [p3 EXCEPT !.status = remove(remove(remove(p3.status, VBLANK),
                                                 SPRITE_ZERO_HIT), SPRITE_OVERFLOW),
                        !.nmi_interrupt = FALSE]
        ELSE p3)))

\* A wrong tick: a scanline of 340 dots
tick_short_scanline(ppu) ==
    Bind(IF ppu.scanline < 240 /\ is_rendering(ppu) /\ ppu.cycle > 0 /\ ppu.cycle <= 256
         THEN render_pixel(ppu)
         ELSE ppu,
         LAMBDA p1 :
    Bind(IF p1.cycle + 1 > 339
         THEN IF p1.scanline + 1 > 261
              THEN [p1 EXCEPT !.cycle = 0, !.scanline = 0, !.frame = p1.frame + 1]
              ELSE [p1 EXCEPT !.cycle = 0, !.scanline = p1.scanline + 1]
         ELSE [p1 EXCEPT !.cycle = p1.cycle + 1],
         LAMBDA p2 :
    Bind(IF p2.scanline = 241 /\ p2.cycle = 1
         THEN [p2 EXCEPT !.status = insert(p2.status, VBLANK),
                         !.nmi_interrupt =
                             IF contains(p2.ctrl, NMI_ENABLE) THEN TRUE ELSE p2.nmi_interrupt]
         ELSE p2,
         LAMBDA p3 :
        IF p3.scanline = 261 /\ p3.cycle = 1
        THEN [p3 EXCEPT !.status = remove(remove(remove(p3.status, VBLANK),
                                                 SPRITE_ZERO_HIT), SPRITE_OVERFLOW),
                        !.nmi_interrupt = FALSE]
        ELSE p3)))

\* Ppu::tick
tick(ppu) ==
    Bind(IF ppu.scanline < 240 /\ is_rendering(ppu) /\ ppu.cycle > 0 /\ ppu.cycle <= 256
         THEN render_pixel(ppu)
         ELSE ppu,
         LAMBDA p1 :
    Bind(IF p1.cycle + 1 > 340
         THEN IF p1.scanline + 1 > 261
              THEN [p1 EXCEPT !.cycle = 0, !.scanline = 0, !.frame = p1.frame + 1]
              ELSE [p1 EXCEPT !.cycle = 0, !.scanline = p1.scanline + 1]
         ELSE [p1 EXCEPT !.cycle = p1.cycle + 1],
         LAMBDA p2 :
    Bind(IF p2.scanline = 241 /\ p2.cycle = 1
         THEN [p2 EXCEPT !.status = insert(p2.status, VBLANK),
                         !.nmi_interrupt =
                             IF contains(p2.ctrl, NMI_ENABLE) THEN TRUE ELSE p2.nmi_interrupt]
         ELSE p2,
         LAMBDA p3 :
        IF p3.scanline = 261 /\ p3.cycle = 1
        THEN [p3 EXCEPT !.status = remove(remove(remove(p3.status, VBLANK),
                                                 SPRITE_ZERO_HIT), SPRITE_OVERFLOW),
                        !.nmi_interrupt = FALSE]
        ELSE p3)))

---------------------------------------------------------------------------
(* APU (apu.rs)                                                            *)

LENGTH_TABLE ==
    << 10, 254, 20, 2, 40, 4, 80, 6, 160, 8, 60, 10, 14, 12, 26, 14,
       12, 16, 24, 18, 48, 20, 96, 22, 192, 24, 72, 26, 16, 28, 32, 30 >>

NOISE_PERIOD_TABLE ==
    << 4, 8, 16, 32, 64, 96, 128, 160, 202, 254, 380, 508, 762, 1016, 2034, 4068 >>

PulseNew ==
    [enabled |-> FALSE, duty |-> 0, length_halt |-> FALSE, constant_volume |-> FALSE,
     volume |-> 0, sweep_enabled |-> FALSE, sweep_period |-> 0, sweep_negate |-> FALSE,
     sweep_shift |-> 0, timer_period |-> 0, length_counter |-> 0,
     timer |-> 0, duty_position |-> 0, envelope_divider |-> 0, envelope_counter |-> 0,
     envelope_start |-> FALSE]

pulse_write_reg0(ch, value) ==
    [ch EXCEPT !.duty = BitAnd(value \div 64, \h03),
               !.length_halt = BitAnd(value, \h20) # 0,
               !.constant_volume = BitAnd(value, \h10) # 0,
               !.volume = BitAnd(value, \h0F)]

pulse_write_reg1(ch, value) ==
    [ch EXCEPT !.sweep_enabled = BitAnd(value, \h80) # 0,
               !.sweep_period = BitAnd(value \div 16, \h07),
               !.sweep_negate = BitAnd(value, \h08) # 0,
               !.sweep_shift = BitAnd(value, \h07)]

\* shared by pulse and triangle
timer_write_reg2(ch, value) ==
    [ch EXCEPT !.timer_period = BitOr(BitAnd(ch.timer_period, \h0700), value)]

timer_period_high(ch, value) ==
    BitOr(BitAnd(ch.timer_period, \h00FF), BitAnd(value, \h07) * \h100)

\* a length load that ignores the enabled flag
length_load_always(ch, value) == LENGTH_TABLE[(value \div 8) + 1]

length_load(ch, value) ==
    IF ch.enabled THEN LENGTH_TABLE[(value \div 8) + 1] ELSE ch.length_counter

pulse_write_reg3(ch, value) ==
    [ch EXCEPT !.timer_period = timer_period_high(ch, value),
               !.length_counter = length_load(ch, value),
               !.envelope_start = TRUE,
               !.duty_position = 0]

\* PulseChannel / TriangleChannel / NoiseChannel set_enabled
set_enabled(ch, enabled) ==
    [ch EXCEPT !.enabled = enabled,
               !.length_counter = IF ~enabled THEN 0 ELSE ch.length_counter]

length_counter_status(ch) == ch.length_counter > 0

pulse_clock_timer(ch) ==
    IF ch.timer = 0
    THEN [ch EXCEPT !.timer = ch.timer_period,
                    !.duty_position = BitAnd(ch.duty_position + 1, \h07)]
    ELSE [ch EXCEPT !.timer = ch.timer - 1]

\* an envelope that does not start again from 15 when the loop flag is set
clock_envelope_no_loop(ch) ==
    IF ch.envelope_start
    THEN [ch EXCEPT !.envelope_start = FALSE, !.envelope_counter = 15,
                    !.envelope_divider = ch.volume]
    ELSE IF ch.envelope_divider = 0
    THEN [ch EXCEPT !.envelope_divider = ch.volume,
                    !.envelope_counter =
                        IF ch.envelope_counter > 0 THEN ch.envelope_counter - 1
                        ELSE ch.envelope_counter]
    ELSE [ch EXCEPT !.envelope_divider = ch.envelope_divider - 1]

\* PulseChannel / NoiseChannel clock_envelope
clock_envelope(ch) ==
    IF ch.envelope_start
    THEN [ch EXCEPT !.envelope_start = FALSE, !.envelope_counter = 15,
                    !.envelope_divider = ch.volume]
    ELSE IF ch.envelope_divider = 0
    THEN [ch EXCEPT !.envelope_divider = ch.volume,
                    !.envelope_counter =
                        IF ch.envelope_counter > 0 THEN ch.envelope_counter - 1
                        ELSE IF ch.length_halt THEN 15
                        ELSE ch.envelope_counter]
    ELSE [ch EXCEPT !.envelope_divider = ch.envelope_divider - 1]

\* a length counter that never counts
clock_length_frozen(ch) == ch

\* PulseChannel / TriangleChannel / NoiseChannel clock_length
clock_length(ch) ==
    IF ~ch.length_halt /\ ch.length_counter > 0
    THEN [ch EXCEPT !.length_counter = ch.length_counter - 1]
    ELSE ch

TriangleNew ==
    [enabled |-> FALSE, length_halt |-> FALSE, linear_counter_load |-> 0,
     timer_period |-> 0, length_counter |-> 0, linear_counter |-> 0,
     linear_counter_reload |-> FALSE, timer |-> 0, sequence_position |-> 0]

triangle_write_reg0(ch, value) ==
    [ch EXCEPT !.length_halt = BitAnd(value, \h80) # 0,
               !.linear_counter_load = BitAnd(value, \h7F)]

triangle_write_reg3(ch, value) ==
    [ch EXCEPT !.timer_period = timer_period_high(ch, value),
               !.length_counter = length_load(ch, value),
               !.linear_counter_reload = TRUE]

triangle_clock_timer(ch) ==
    IF ch.timer = 0
    THEN [ch EXCEPT !.timer = ch.timer_period,
                    !.sequence_position =
                        IF ch.linear_counter > 0 /\ ch.length_counter > 0
                        THEN BitAnd(ch.sequence_position + 1, \h1F)
                        ELSE ch.sequence_position]
    ELSE [ch EXCEPT !.timer = ch.timer - 1]

clock_linear_counter(ch) ==
    LET c1 == IF ch.linear_counter_reload
              THEN [ch EXCEPT !.linear_counter = ch.linear_counter_load]
              ELSE IF ch.linear_counter > 0
              THEN [ch EXCEPT !.linear_counter = ch.linear_counter - 1]
              ELSE ch
    IN  IF ~c1.length_halt THEN [c1 EXCEPT !.linear_counter_reload = FALSE] ELSE c1

NoiseNew ==
    [enabled |-> FALSE, length_halt |-> FALSE, constant_volume |-> FALSE, volume |-> 0,
     mode |-> FALSE, timer_period |-> 0, length_counter |-> 0, timer |-> 0,
     shift_register |-> 1, envelope_divider |-> 0, envelope_counter |-> 0,
     envelope_start |-> FALSE]

noise_write_reg0(ch, value) ==
    [ch EXCEPT !.length_halt = BitAnd(value, \h20) # 0,
               !.constant_volume = BitAnd(value, \h10) # 0,
               !.volume = BitAnd(value, \h0F)]

noise_write_reg2(ch, value) ==
    [ch EXCEPT !.mode = BitAnd(value, \h80) # 0,
               !.timer_period = BitAnd(value, \h0F)]

noise_write_reg3(ch, value) ==
    [ch EXCEPT !.length_counter = length_load(ch, value), !.envelope_start = TRUE]

\* clock_timer without the feedback bit: the register only shifts right
noise_clock_timer_no_feedback(ch) ==
    IF ch.timer = 0
    THEN [ch EXCEPT !.timer = NOISE_PERIOD_TABLE[ch.timer_period + 1],
                    !.shift_register = ch.shift_register \div 2]
    ELSE [ch EXCEPT !.timer = ch.timer - 1]

noise_clock_timer(ch) ==
    IF ch.timer = 0
    THEN LET sr == ch.shift_register
             feedback == IF ch.mode
                         THEN BitXor(BitAnd(sr, 1), BitAnd(sr \div 64, 1))
                         ELSE BitXor(BitAnd(sr, 1), BitAnd(sr \div 2, 1))
         IN  [ch EXCEPT !.timer = NOISE_PERIOD_TABLE[ch.timer_period + 1],
                        !.shift_register = BitOr(sr \div 2, Wrap16(feedback * \h4000))]
    ELSE [ch EXCEPT !.timer = ch.timer - 1]

DmcNew ==
    [enabled |-> FALSE, irq_enabled |-> FALSE, loop_flag |-> FALSE, rate |-> 0,
     direct_load |-> 0, sample_address |-> \hC000, sample_length |-> 0,
     output_level |-> 0, bytes_remaining |-> 0, current_address |-> \hC000]

dmc_write_reg0(ch, value) ==
    [ch EXCEPT !.irq_enabled = BitAnd(value, \h80) # 0,
               !.loop_flag = BitAnd(value, \h40) # 0,
               !.rate = BitAnd(value, \h0F)]

dmc_write_reg1(ch, value) ==
    [ch EXCEPT !.direct_load = BitAnd(value, \h7F), !.output_level = BitAnd(value, \h7F)]

dmc_write_reg2(ch, value) ==
    [ch EXCEPT !.sample_address = \hC000 + value * 64]

dmc_write_reg3(ch, value) ==
    [ch EXCEPT !.sample_length = value * 16 + 1]

dmc_set_enabled(ch, enabled) ==
    IF ~enabled THEN [ch EXCEPT !.enabled = enabled, !.bytes_remaining = 0]
    ELSE IF ch.bytes_remaining = 0
    THEN [ch EXCEPT !.enabled = enabled, !.current_address = ch.sample_address,
                    !.bytes_remaining = ch.sample_length]
    ELSE [ch EXCEPT !.enabled = enabled]

ApuNew ==
    [pulse1 |-> PulseNew, pulse2 |-> PulseNew, triangle |-> TriangleNew,
     noise |-> NoiseNew, dmc |-> DmcNew,
     frame_counter_mode |-> FALSE, irq_inhibit |-> FALSE, cycle |-> 0, frame_step |-> 0]

clock_quarter_frame(apu) ==
    [apu EXCEPT !.pulse1 = clock_envelope(apu.pulse1),
                !.pulse2 = clock_envelope(apu.pulse2),
                !.triangle = clock_linear_counter(apu.triangle),
                !.noise = clock_envelope(apu.noise)]

clock_half_frame(apu) ==
    [apu EXCEPT !.pulse1 = clock_length(apu.pulse1),
                !.pulse2 = clock_length(apu.pulse2),
                !.triangle = clock_length(apu.triangle),
                !.noise = clock_length(apu.noise)]

\* a frame counter whose 5-step mode has no idle step: step 4 clocks a
\* quarter and a half frame
clock_frame_counter_no_idle(apu) ==
    LET quarter == clock_quarter_frame(apu)
        half == clock_half_frame(quarter)
    IN  IF apu.frame_counter_mode
        THEN LET a == CASE apu.frame_step \in {0, 2} -> quarter
                        [] OTHER -> half
             IN  [a EXCEPT !.frame_step = (apu.frame_step + 1) % 5]
        ELSE LET a == CASE apu.frame_step \in {0, 2} -> quarter
                        [] OTHER -> half
             IN  [a EXCEPT !.frame_step = (apu.frame_step + 1) % 4]

clock_frame_counter(apu) ==
    LET quarter == clock_quarter_frame(apu)
        half == clock_half_frame(quarter)
    IN  IF apu.frame_counter_mode
        THEN LET a == CASE apu.frame_step \in {0, 2} -> quarter
                        [] apu.frame_step \in {1, 3} -> half
                        [] OTHER -> apu
             IN  [a EXCEPT !.frame_step = (apu.frame_step + 1) % 5]
        ELSE LET a == CASE apu.frame_step \in {0, 2} -> quarter
                        [] OTHER -> half
             IN  [a EXCEPT !.frame_step = (apu.frame_step + 1) % 4]

apu_write_register(apu, addr, value) ==
    CASE addr = \h4000 -> [apu EXCEPT !.pulse1 = pulse_write_reg0(@, value)]
      [] addr = \h4001 -> [apu EXCEPT !.pulse1 = pulse_write_reg1(@, value)]
      [] addr = \h4002 -> [apu EXCEPT !.pulse1 = timer_write_reg2(@, value)]
      [] addr = \h4003 -> [apu EXCEPT !.pulse1 = pulse_write_reg3(@, value)]
      [] addr = \h4004 -> [apu EXCEPT !.pulse2 = pulse_write_reg0(@, value)]
      [] addr = \h4005 -> [apu EXCEPT !.pulse2 = pulse_write_reg1(@, value)]
      [] addr = \h4006 -> [apu EXCEPT !.pulse2 = timer_write_reg2(@, value)]
      [] addr = \h4007 -> [apu EXCEPT !.pulse2 = pulse_write_reg3(@, value)]
      [] addr = \h4008 -> [apu EXCEPT !.triangle = triangle_write_reg0(@, value)]
      [] addr = \h400A -> [apu EXCEPT !.triangle = timer_write_reg2(@, value)]
      [] addr = \h400B -> [apu EXCEPT !.triangle = triangle_write_reg3(@, value)]
      [] addr = \h400C -> [apu EXCEPT !.noise = noise_write_reg0(@, value)]
      [] addr = \h400E -> [apu EXCEPT !.noise = noise_write_reg2(@, value)]
      [] addr = \h400F -> [apu EXCEPT !.noise = noise_write_reg3(@, value)]
      [] addr = \h4010 -> [apu EXCEPT !.dmc = dmc_write_reg0(@, value)]
      [] addr = \h4011 -> [apu EXCEPT !.dmc = dmc_write_reg1(@, value)]
      [] addr = \h4012 -> [apu EXCEPT !.dmc = dmc_write_reg2(@, value)]
      [] addr = \h4013 -> [apu EXCEPT !.dmc = dmc_write_reg3(@, value)]
      [] addr = \h4015 ->
           [apu EXCEPT !.pulse1 = set_enabled(@, BitAnd(value, \h01) # 0),
                       !.pulse2 = set_enabled(@, BitAnd(value, \h02) # 0),
                       !.triangle = set_enabled(@, BitAnd(value, \h04) # 0),
                       !.noise = set_enabled(@, BitAnd(value, \h08) # 0),
                       !.dmc = dmc_set_enabled(@, BitAnd(value, \h10) # 0)]
      [] addr = \h4017 ->
           LET a == [apu EXCEPT !.frame_counter_mode = BitAnd(value, \h80) # 0,
                                !.irq_inhibit = BitAnd(value, \h40) # 0,
                                !.frame_step = 0]
           IN  IF a.frame_counter_mode THEN clock_half_frame(clock_quarter_frame(a)) ELSE a
      [] OTHER -> apu

apu_read_register(apu, addr) ==
    IF addr = \h4015
    THEN (IF length_counter_status(apu.pulse1) THEN \h01 ELSE 0)
       + (IF length_counter_status(apu.pulse2) THEN \h02 ELSE 0)
       + (IF length_counter_status(apu.triangle) THEN \h04 ELSE 0)
       + (IF length_counter_status(apu.noise) THEN \h08 ELSE 0)
       + (IF apu.dmc.bytes_remaining > 0 THEN \h10 ELSE 0)
    ELSE 0

apu_clock(apu) ==
    LET a1 == IF apu.cycle % 2 = 0
              THEN [apu EXCEPT !.pulse1 = pulse_clock_timer(@),
                               !.pulse2 = pulse_clock_timer(@),
                               !.noise = noise_clock_timer(@)]
              ELSE apu
        a2 == [a1 EXCEPT !.triangle = triangle_clock_timer(@)]
        a3 == IF apu.cycle % 7457 = 0 THEN clock_frame_counter(a2) ELSE a2
    IN  [a3 EXCEPT !.cycle = apu.cycle + 1]

---------------------------------------------------------------------------
(* Memory bus (memory.rs)                                                  *)

ContextNew == [frame |-> 0, cycle |-> 0, pc |-> 0, last_input |-> 0]

\* NesMemory::new.  Two model fields stand for what lies outside the struct:
\* `observed` is the list of callbacks the attached observers have received
\* during the current entry point, and `panicked` is set once the thread
\* has panicked.
NesMemoryNew ==
    [ram |-> Zeroed, ppu |-> PpuNew, apu |-> ApuNew,
     controller1 |-> ControllerNew, controller2 |-> ControllerNew,
     cartridge |-> << >>, observers |-> << >>, context |-> ContextNew,
     observed |-> << >>, panicked |-> FALSE]

load_cartridge(mem, image) ==
    LET cartridge == CartridgeLoad(image)
        len == IF cartridge.header.mapper = 66
               THEN IF ChrLen(image) >= \h2000 THEN \h2000 ELSE ChrLen(image)
               ELSE ChrLen(image)
    IN  [mem EXCEPT !.ppu = load_chr_rom(mem.ppu, image, len),
                    !.cartridge = << cartridge >>]

load_prg_rom(mem, image) ==
    LET fake_cart ==
            [image |-> image,
             header |-> [prg_rom_banks |-> 1, chr_rom_banks |-> 1, mapper |-> 0,
                         mirroring |-> "Horizontal", has_battery |-> FALSE,
                         has_trainer |-> FALSE],
             mapper_state |-> MapperStateDefault]
    IN  [mem EXCEPT !.cartridge = << fake_cart >>]

\* A wrong decode: RAM mirrored every $1000 instead of every $0800
ram_index_wide(addr) == BitAnd(addr, \h0FFF)

\* `(addr & 0x07FF) as usize`, the RAM cell an address in $0000-$1FFF selects
ram_index(addr) == BitAnd(addr, \h07FF)

\* returns [mem, v]
read_internal(mem, addr) ==
    IF addr <= \h1FFF
    THEN [mem |-> mem, v |-> Load(mem.ram, ram_index(addr))]
    ELSE IF addr <= \h3FFF
    THEN Bind(read_register(mem.ppu, addr), LAMBDA r :
             [mem |-> [mem EXCEPT !.ppu = r.ppu], v |-> r.v])
    ELSE IF addr <= \h4017
    THEN CASE addr = \h4016 ->
                Bind(ControllerRead(mem.controller1), LAMBDA r :
                    [mem |-> [mem EXCEPT !.controller1 = r.c], v |-> BitOr(r.v, \h40)])
           [] addr = \h4017 ->
                Bind(ControllerRead(mem.controller2), LAMBDA r :
                    [mem |-> [mem EXCEPT !.controller2 = r.c], v |-> BitOr(r.v, \h40)])
           [] addr = \h4015 -> [mem |-> mem, v |-> apu_read_register(mem.apu, addr)]
           [] OTHER -> [mem |-> mem, v |-> 0]
    ELSE IF addr >= \h4020
    THEN IF mem.cartridge # << >>
         THEN Bind(read_prg(mem.cartridge[1], addr), LAMBDA r :
                  IF r.panic THEN [mem |-> [mem EXCEPT !.panicked = TRUE], v |-> 0]
                  ELSE [mem |-> mem, v |-> r.v])
         ELSE [mem |-> mem, v |-> \hFF]
    ELSE [mem |-> mem, v |-> \hFF]

write_internal(mem, addr, value) ==
    IF addr <= \h1FFF
    THEN [mem EXCEPT !.ram = Store(mem.ram, ram_index(addr), value)]
    ELSE IF addr <= \h3FFF
    THEN [mem EXCEPT !.ppu = write_register(mem.ppu, addr, value)]
    ELSE IF addr <= \h4017
    THEN IF addr = \h4016
         THEN [mem EXCEPT !.controller1 = ControllerWrite(mem.controller1, value),
                          !.controller2 = ControllerWrite(mem.controller2, value)]
         ELSE [mem EXCEPT !.apu = apu_write_register(mem.apu, addr, value)]
    ELSE IF addr >= \h4020
    THEN IF mem.cartridge # << >>
         THEN Bind(write_prg(mem.cartridge[1], addr, value), LAMBDA cart :
                  IF cart.header.mapper = 66
                     /\ cart.mapper_state.chr_bank # mem.cartridge[1].mapper_state.chr_bank
                  THEN [mem EXCEPT !.cartridge = << cart >>,
                                   !.ppu = load_chr_bank(mem.ppu, cart.image,
                                                         cart.mapper_state.chr_bank)]
                  ELSE [mem EXCEPT !.cartridge = << cart >>])
         ELSE mem
    ELSE mem

\* A wrong fan-out: the observers are called last-attached first
RECURSIVE notify_reversed(_, _, _)
notify_reversed(observers, call, i) ==
    IF i > Len(observers) THEN << >>
    ELSE notify_reversed(observers, call, i + 1) \o << [call EXCEPT !.observer = observers[i]] >>

\* one callback per attached observer, in list order
RECURSIVE notify(_, _, _)
notify(observers, call, i) ==
    IF i > Len(observers) THEN << >>
    ELSE << [call EXCEPT !.observer = observers[i]] >> \o notify(observers, call, i + 1)

\* <NesMemory as CpuMemory>::read; returns [mem, v].  Once the thread has
\* panicked nothing further runs.
bus_read(mem, addr) ==
    IF mem.panicked THEN [mem |-> mem, v |-> 0]
    ELSE
    Bind(read_internal(mem, addr), LAMBDA r :
        IF r.mem.panicked THEN r
        ELSE [mem |-> [r.mem EXCEPT !.observed = @ \o notify(r.mem.observers,
                          [observer |-> 0, kind |-> "on_read", address |-> addr,
                           value |-> r.v, old_value |-> 0, context |-> r.mem.context], 1)],
              v |-> r.v])

\* <NesMemory as CpuMemory>::write
bus_write(mem, addr, value) ==
    IF mem.panicked THEN mem
    ELSE
    Bind(read_internal(mem, addr), LAMBDA r :
        IF r.mem.panicked THEN r.mem
        ELSE Bind(write_internal(r.mem, addr, value), LAMBDA w :
                 [w EXCEPT !.observed = @ \o notify(w.observers,
                     [observer |-> 0, kind |-> "on_write", address |-> addr,
                      value |-> value, old_value |-> r.v, context |-> w.context], 1)]))

attach_observer(mem, observer) == [mem EXCEPT !.observers = Append(@, observer)]

clear_observers(mem) == [mem EXCEPT !.observers = << >>]

update_context(mem, context) == [mem EXCEPT !.context = context]

---------------------------------------------------------------------------
(* 6502 CPU (cpu/mod.rs, cpu/opcodes.rs, cpu/instructions.rs)              *)

CARRY     == \h01
ZERO      == \h02
INTERRUPT == \h04
DECIMAL   == \h08
BREAK     == \h10
UNUSED    == \h20
OVERFLOW  == \h40
NEGATIVE  == \h80

\* get_opcode_info(opcode).cycles for opcode 0..255, 0 where it returns None
OpcodeCycles ==
    <<
       7, 6, 0, 0, 0, 3, 5, 0, 3, 2, 2, 0, 0, 4, 6, 0,
       2, 5, 0, 0, 0, 4, 6, 0, 2, 4, 0, 0, 0, 4, 7, 0,
       6, 6, 0, 0, 3, 3, 5, 0, 4, 2, 2, 0, 4, 4, 6, 0,
       2, 5, 0, 0, 0, 4, 6, 0, 2, 4, 0, 0, 0, 4, 7, 0,
       6, 6, 0, 0, 0, 3, 5, 0, 3, 2, 2, 0, 3, 4, 6, 0,
       2, 5, 0, 0, 0, 4, 6, 0, 2, 4, 0, 0, 0, 4, 7, 0,
       6, 6, 0, 0, 0, 3, 5, 0, 4, 2, 2, 0, 5, 4, 6, 0,
       2, 5, 0, 0, 0, 4, 6, 0, 2, 4, 0, 0, 0, 4, 7, 0,
       0, 6, 0, 0, 3, 3, 3, 0, 2, 0, 2, 0, 4, 4, 4, 0,
       2, 6, 0, 0, 4, 4, 4, 0, 2, 5, 2, 0, 0, 5, 0, 0,
       2, 6, 2, 0, 3, 3, 3, 0, 2, 2, 2, 0, 4, 4, 4, 0,
       2, 5, 0, 0, 4, 4, 4, 0, 2, 4, 2, 0, 4, 4, 4, 0,
       2, 6, 0, 0, 3, 3, 5, 0, 2, 2, 2, 0, 4, 4, 6, 0,
       2, 5, 0, 0, 0, 4, 6, 0, 2, 4, 0, 0, 0, 4, 7, 0,
       2, 6, 0, 0, 3, 3, 5, 0, 2, 2, 2, 0, 4, 4, 6, 0,
       2, 5, 0, 0, 0, 4, 6, 0, 2, 4, 0, 0, 0, 4, 7, 0 >>

\* get_opcode_info(opcode).mnemonic, "" where it returns None
OpcodeMnemonic ==
    <<
       "BRK", "ORA", "", "", "", "ORA", "ASL", "",
       "PHP", "ORA", "ASL", "", "", "ORA", "ASL", "",
       "BPL", "ORA", "", "", "", "ORA", "ASL", "",
       "CLC", "ORA", "", "", "", "ORA", "ASL", "",
       "JSR", "AND", "", "", "BIT", "AND", "ROL", "",
       "PLP", "AND", "ROL", "", "BIT", "AND", "ROL", "",
       "BMI", "AND", "", "", "", "AND", "ROL", "",
       "SEC", "AND", "", "", "", "AND", "ROL", "",
       "RTI", "EOR", "", "", "", "EOR", "LSR", "",
       "PHA", "EOR", "LSR", "", "JMP", "EOR", "LSR", "",
       "BVC", "EOR", "", "", "", "EOR", "LSR", "",
       "CLI", "EOR", "", "", "", "EOR", "LSR", "",
       "RTS", "ADC", "", "", "", "ADC", "ROR", "",
       "PLA", "ADC", "ROR", "", "JMP", "ADC", "ROR", "",
       "BVS", "ADC", "", "", "", "ADC", "ROR", "",
       "SEI", "ADC", "", "", "", "ADC", "ROR", "",
       "", "STA", "", "", "STY", "STA", "STX", "",
       "DEY", "", "TXA", "", "STY", "STA", "STX", "",
       "BCC", "STA", "", "", "STY", "STA", "STX", "",
       "TYA", "STA", "TXS", "", "", "STA", "", "",
       "LDY", "LDA", "LDX", "", "LDY", "LDA", "LDX", "",
       "TAY", "LDA", "TAX", "", "LDY", "LDA", "LDX", "",
       "BCS", "LDA", "", "", "LDY", "LDA", "LDX", "",
       "CLV", "LDA", "TSX", "", "LDY", "LDA", "LDX", "",
       "CPY", "CMP", "", "", "CPY", "CMP", "DEC", "",
       "INY", "CMP", "DEX", "", "CPY", "CMP", "DEC", "",
       "BNE", "CMP", "", "", "", "CMP", "DEC", "",
       "CLD", "CMP", "", "", "", "CMP", "DEC", "",
       "CPX", "SBC", "", "", "CPX", "SBC", "INC", "",
       "INX", "SBC", "NOP", "", "CPX", "SBC", "INC", "",
       "BEQ", "SBC", "", "", "", "SBC", "INC", "",
       "SED", "SBC", "", "", "", "SBC", "INC", "" >>

\* The arm of execute's match for opcode 0..255: <<operation, addressing,
\* whether a page crossing adds a cycle>>; "" for the `_` arm
ExecuteArm ==
    <<
       <<"brk", "imp", FALSE>>, <<"ora", "indx", FALSE>>, <<"", "", FALSE>>, <<"", "", FALSE>>,
       <<"", "", FALSE>>, <<"ora", "zp", FALSE>>, <<"asl", "zp", FALSE>>, <<"", "", FALSE>>,
       <<"php", "imp", FALSE>>, <<"ora", "imm", FALSE>>, <<"asl_acc", "imp", FALSE>>, <<"", "", FALSE>>,
       <<"", "", FALSE>>, <<"ora", "abs", FALSE>>, <<"asl", "abs", FALSE>>, <<"", "", FALSE>>,
       <<"bnc", "rel", FALSE>>, <<"ora", "indy", TRUE>>, <<"", "", FALSE>>, <<"", "", FALSE>>,
       <<"", "", FALSE>>, <<"ora", "zpx", FALSE>>, <<"asl", "zpx", FALSE>>, <<"", "", FALSE>>,
       <<"clc", "imp", FALSE>>, <<"ora", "absy", TRUE>>, <<"", "", FALSE>>, <<"", "", FALSE>>,
       <<"", "", FALSE>>, <<"ora", "absx", TRUE>>, <<"asl", "absx", FALSE>>, <<"", "", FALSE>>,
       <<"jsr", "imp", FALSE>>, <<"and", "indx", FALSE>>, <<"", "", FALSE>>, <<"", "", FALSE>>,
       <<"bit", "zp", FALSE>>, <<"and", "zp", FALSE>>, <<"rol", "zp", FALSE>>, <<"", "", FALSE>>,
       <<"plp", "imp", FALSE>>, <<"and", "imm", FALSE>>, <<"rol_acc", "imp", FALSE>>, <<"", "", FALSE>>,
       <<"bit", "abs", FALSE>>, <<"and", "abs", FALSE>>, <<"rol", "abs", FALSE>>, <<"", "", FALSE>>,
       <<"bns", "rel", FALSE>>, <<"and", "indy", TRUE>>, <<"", "", FALSE>>, <<"", "", FALSE>>,
       <<"", "", FALSE>>, <<"and", "zpx", FALSE>>, <<"rol", "zpx", FALSE>>, <<"", "", FALSE>>,
       <<"sec", "imp", FALSE>>, <<"and", "absy", TRUE>>, <<"", "", FALSE>>, <<"", "", FALSE>>,
       <<"", "", FALSE>>, <<"and", "absx", TRUE>>, <<"rol", "absx", FALSE>>, <<"", "", FALSE>>,
       <<"rti", "imp", FALSE>>, <<"eor", "indx", FALSE>>, <<"", "", FALSE>>, <<"", "", FALSE>>,
       <<"", "", FALSE>>, <<"eor", "zp", FALSE>>, <<"lsr", "zp", FALSE>>, <<"", "", FALSE>>,
       <<"pha", "imp", FALSE>>, <<"eor", "imm", FALSE>>, <<"lsr_acc", "imp", FALSE>>, <<"", "", FALSE>>,
       <<"jmp", "abs", FALSE>>, <<"eor", "abs", FALSE>>, <<"lsr", "abs", FALSE>>, <<"", "", FALSE>>,
       <<"bvc", "rel", FALSE>>, <<"eor", "indy", TRUE>>, <<"", "", FALSE>>, <<"", "", FALSE>>,
       <<"", "", FALSE>>, <<"eor", "zpx", FALSE>>, <<"lsr", "zpx", FALSE>>, <<"", "", FALSE>>,
       <<"cli", "imp", FALSE>>, <<"eor", "absy", TRUE>>, <<"", "", FALSE>>, <<"", "", FALSE>>,
       <<"", "", FALSE>>, <<"eor", "absx", TRUE>>, <<"lsr", "absx", FALSE>>, <<"", "", FALSE>>,
       <<"rts", "imp", FALSE>>, <<"adc", "indx", FALSE>>, <<"", "", FALSE>>, <<"", "", FALSE>>,
       <<"", "", FALSE>>, <<"adc", "zp", FALSE>>, <<"ror", "zp", FALSE>>, <<"", "", FALSE>>,
       <<"pla", "imp", FALSE>>, <<"adc", "imm", FALSE>>, <<"ror_acc", "imp", FALSE>>, <<"", "", FALSE>>,
       <<"jmp", "ind", FALSE>>, <<"adc", "abs", FALSE>>, <<"ror", "abs", FALSE>>, <<"", "", FALSE>>,
       <<"bvs", "rel", FALSE>>, <<"adc", "indy", TRUE>>, <<"", "", FALSE>>, <<"", "", FALSE>>,
       <<"", "", FALSE>>, <<"adc", "zpx", FALSE>>, <<"ror", "zpx", FALSE>>, <<"", "", FALSE>>,
       <<"sei", "imp", FALSE>>, <<"adc", "absy", TRUE>>, <<"", "", FALSE>>, <<"", "", FALSE>>,
       <<"", "", FALSE>>, <<"adc", "absx", TRUE>>, <<"ror", "absx", FALSE>>, <<"", "", FALSE>>,
       <<"", "", FALSE>>, <<"sta", "indx", FALSE>>, <<"", "", FALSE>>, <<"", "", FALSE>>,
       <<"sty", "zp", FALSE>>, <<"sta", "zp", FALSE>>, <<"stx", "zp", FALSE>>, <<"", "", FALSE>>,
       <<"dey", "imp", FALSE>>, <<"", "", FALSE>>, <<"txa", "imp", FALSE>>, <<"", "", FALSE>>,
       <<"sty", "abs", FALSE>>, <<"sta", "abs", FALSE>>, <<"stx", "abs", FALSE>>, <<"", "", FALSE>>,
       <<"bcc", "rel", FALSE>>, <<"sta", "indy", FALSE>>, <<"", "", FALSE>>, <<"", "", FALSE>>,
       <<"sty", "zpx", FALSE>>, <<"sta", "zpx", FALSE>>, <<"stx", "zpy", FALSE>>, <<"", "", FALSE>>,
       <<"tya", "imp", FALSE>>, <<"sta", "absy", FALSE>>, <<"txs", "imp", FALSE>>, <<"", "", FALSE>>,
       <<"", "", FALSE>>, <<"sta", "absx", FALSE>>, <<"", "", FALSE>>, <<"", "", FALSE>>,
       <<"ldy", "imm", FALSE>>, <<"lda", "indx", FALSE>>, <<"ldx", "imm", FALSE>>, <<"", "", FALSE>>,
       <<"ldy", "zp", FALSE>>, <<"lda", "zp", FALSE>>, <<"ldx", "zp", FALSE>>, <<"", "", FALSE>>,
       <<"tay", "imp", FALSE>>, <<"lda", "imm", FALSE>>, <<"tax", "imp", FALSE>>, <<"", "", FALSE>>,
       <<"ldy", "abs", FALSE>>, <<"lda", "abs", FALSE>>, <<"ldx", "abs", FALSE>>, <<"", "", FALSE>>,
       <<"bcs", "rel", FALSE>>, <<"lda", "indy", TRUE>>, <<"", "", FALSE>>, <<"", "", FALSE>>,
       <<"ldy", "zpx", FALSE>>, <<"lda", "zpx", FALSE>>, <<"ldx", "zpy", FALSE>>, <<"", "", FALSE>>,
       <<"clv", "imp", FALSE>>, <<"lda", "absy", TRUE>>, <<"tsx", "imp", FALSE>>, <<"", "", FALSE>>,
       <<"ldy", "absx", TRUE>>, <<"lda", "absx", TRUE>>, <<"ldx", "absy", TRUE>>, <<"", "", FALSE>>,
       <<"cpy", "imm", FALSE>>, <<"cmp", "indx", FALSE>>, <<"", "", FALSE>>, <<"", "", FALSE>>,
       <<"cpy", "zp", FALSE>>, <<"cmp", "zp", FALSE>>, <<"dec", "zp", FALSE>>, <<"", "", FALSE>>,
       <<"iny", "imp", FALSE>>, <<"cmp", "imm", FALSE>>, <<"dex", "imp", FALSE>>, <<"", "", FALSE>>,
       <<"cpy", "abs", FALSE>>, <<"cmp", "abs", FALSE>>, <<"dec", "abs", FALSE>>, <<"", "", FALSE>>,
       <<"bzc", "rel", FALSE>>, <<"cmp", "indy", TRUE>>, <<"", "", FALSE>>, <<"", "", FALSE>>,
       <<"", "", FALSE>>, <<"cmp", "zpx", FALSE>>, <<"dec", "zpx", FALSE>>, <<"", "", FALSE>>,
       <<"cld", "imp", FALSE>>, <<"cmp", "absy", TRUE>>, <<"", "", FALSE>>, <<"", "", FALSE>>,
       <<"", "", FALSE>>, <<"cmp", "absx", TRUE>>, <<"dec", "absx", FALSE>>, <<"", "", FALSE>>,
       <<"cpx", "imm", FALSE>>, <<"sbc", "indx", FALSE>>, <<"", "", FALSE>>, <<"", "", FALSE>>,
       <<"cpx", "zp", FALSE>>, <<"sbc", "zp", FALSE>>, <<"inc", "zp", FALSE>>, <<"", "", FALSE>>,
       <<"inx", "imp", FALSE>>, <<"sbc", "imm", FALSE>>, <<"nop", "imp", FALSE>>, <<"", "", FALSE>>,
       <<"cpx", "abs", FALSE>>, <<"sbc", "abs", FALSE>>, <<"inc", "abs", FALSE>>, <<"", "", FALSE>>,
       <<"bzs", "rel", FALSE>>, <<"sbc", "indy", TRUE>>, <<"", "", FALSE>>, <<"", "", FALSE>>,
       <<"", "", FALSE>>, <<"sbc", "zpx", FALSE>>, <<"inc", "zpx", FALSE>>, <<"", "", FALSE>>,
       <<"sed", "imp", FALSE>>, <<"sbc", "absy", TRUE>>, <<"", "", FALSE>>, <<"", "", FALSE>>,
       <<"", "", FALSE>>, <<"sbc", "absx", TRUE>>, <<"inc", "absx", FALSE>>, <<"", "", FALSE>> >>

\* Cpu6502::new.  `nmi_pending` is the flag Cpu6502::nmi sets.
CpuNew(memory) ==
    [a |-> 0, x |-> 0, y |-> 0, sp |-> \hFD, pc |-> 0,
     status |-> BitOr(INTERRUPT, UNUSED), memory |-> memory, cycles |-> 0,
     nmi_pending |-> FALSE]

set_flag(c, flag, value) ==
    [c EXCEPT !.status = IF value THEN insert(@, flag) ELSE remove(@, flag)]

get_flag(c, flag) == contains(c.status, flag)

update_zn(c, value) ==
    set_flag(set_flag(c, ZERO, value = 0), NEGATIVE, BitAnd(value, \h80) # 0)

\* CpuMemory::read_word; returns [mem, v]
read_word(mem, addr) ==
    Bind(bus_read(mem, addr), LAMBDA lo :
    Bind(bus_read(lo.mem, Wrap16(addr + 1)), LAMBDA hi :
        [mem |-> hi.mem, v |-> hi.v * 256 + lo.v]))

push(c, value) ==
    [c EXCEPT !.memory = bus_write(c.memory, \h0100 + c.sp, value),
              !.sp = Wrap8(c.sp + 255)]

\* push_word pushing the low byte first
push_word_low_first(c, value) == push(push(c, value % 256), value \div 256)

push_word(c, value) == push(push(c, value \div 256), value % 256)

\* returns [c, v]
pop(c) ==
    Bind(bus_read(c.memory, \h0100 + Wrap8(c.sp + 1)), LAMBDA r :
        [c |-> [c EXCEPT !.sp = Wrap8(c.sp + 1), !.memory = r.mem], v |-> r.v])

pop_word(c) ==
    Bind(pop(c), LAMBDA lo :
    Bind(pop(lo.c), LAMBDA hi :
        [c |-> hi.c, v |-> hi.v * 256 + lo.v]))

fetch_byte(c) ==
    Bind(bus_read(c.memory, c.pc), LAMBDA r :
        [c |-> [c EXCEPT !.memory = r.mem, !.pc = Wrap16(c.pc + 1)], v |-> r.v])

fetch_word(c) ==
    Bind(read_word(c.memory, c.pc), LAMBDA r :
        [c |-> [c EXCEPT !.memory = r.mem, !.pc = Wrap16(c.pc + 2)], v |-> r.v])

\* Addressing helpers; each returns [c, addr, p] with p the page-crossed flag
\* (FALSE for the helpers that return only an address).
addr_zero_page(c) ==
    Bind(fetch_byte(c), LAMBDA f : [c |-> f.c, addr |-> f.v, p |-> FALSE])

addr_zero_page_x(c) ==
    Bind(fetch_byte(c), LAMBDA f : [c |-> f.c, addr |-> Wrap8(f.v + c.x), p |-> FALSE])

addr_zero_page_y(c) ==
    Bind(fetch_byte(c), LAMBDA f : [c |-> f.c, addr |-> Wrap8(f.v + c.y), p |-> FALSE])

addr_absolute(c) ==
    Bind(fetch_word(c), LAMBDA f : [c |-> f.c, addr |-> f.v, p |-> FALSE])

addr_absolute_x(c) ==
    Bind(fetch_word(c), LAMBDA f :
        LET addr == Wrap16(f.v + c.x)
        IN  [c |-> f.c, addr |-> addr, p |-> (f.v \div 256) # (addr \div 256)])

addr_absolute_y(c) ==
    Bind(fetch_word(c), LAMBDA f :
        LET addr == Wrap16(f.v + c.y)
        IN  [c |-> f.c, addr |-> addr, p |-> (f.v \div 256) # (addr \div 256)])

\* addr_indirect reading both bytes with read_word, whatever the pointer
addr_indirect_no_wrap(c) ==
    Bind(fetch_word(c), LAMBDA f :
    Bind(read_word(f.c.memory, f.v), LAMBDA w :
        [c |-> [f.c EXCEPT !.memory = w.mem], addr |-> w.v, p |-> FALSE]))

addr_indirect(c) ==
    Bind(fetch_word(c), LAMBDA f :
        LET ptr == f.v
        IN  IF ptr % 256 = \hFF
            THEN Bind(bus_read(f.c.memory, ptr), LAMBDA lo :
                 Bind(bus_read(lo.mem, BitAnd(ptr, \hFF00)), LAMBDA hi :
                     [c |-> [f.c EXCEPT !.memory = hi.mem], addr |-> hi.v * 256 + lo.v,
                      p |-> FALSE]))
            ELSE Bind(read_word(f.c.memory, ptr), LAMBDA w :
                     [c |-> [f.c EXCEPT !.memory = w.mem], addr |-> w.v, p |-> FALSE]))

addr_indexed_indirect(c) ==
    Bind(fetch_byte(c), LAMBDA f :
        LET ptr == Wrap8(f.v + c.x)
        IN  Bind(bus_read(f.c.memory, ptr), LAMBDA lo :
            Bind(bus_read(lo.mem, Wrap8(ptr + 1)), LAMBDA hi :
                [c |-> [f.c EXCEPT !.memory = hi.mem], addr |-> hi.v * 256 + lo.v,
                 p |-> FALSE])))

addr_indirect_indexed(c) ==
    Bind(fetch_byte(c), LAMBDA f :
        LET ptr == f.v
        IN  Bind(bus_read(f.c.memory, ptr), LAMBDA lo :
            Bind(bus_read(lo.mem, Wrap8(ptr + 1)), LAMBDA hi :
                LET base == hi.v * 256 + lo.v
                    addr == Wrap16(base + c.y)
                IN  [c |-> [f.c EXCEPT !.memory = hi.mem], addr |-> addr,
                     p |-> (base \div 256) # (addr \div 256)])))

\* the `self.addr_...()` call of an arm of execute
operand_address(c, mode) ==
    CASE mode = "zp"   -> addr_zero_page(c)
      [] mode = "zpx"  -> addr_zero_page_x(c)
      [] mode = "zpy"  -> addr_zero_page_y(c)
      [] mode = "abs"  -> addr_absolute(c)
      [] mode = "absx" -> addr_absolute_x(c)
      [] mode = "absy" -> addr_absolute_y(c)
      [] mode = "ind"  -> addr_indirect(c)
      [] mode = "indx" -> addr_indexed_indirect(c)
      [] mode = "indy" -> addr_indirect_indexed(c)

\* A wrong overflow: the signed overflow flag copies the unsigned carry
adc_overflow_is_carry(c, value) ==
    LET carry == IF get_flag(c, CARRY) THEN 1 ELSE 0
        sum == c.a + value + carry
        result == Wrap8(sum)
        c1 == set_flag(set_flag(c, CARRY, sum > \hFF), OVERFLOW, sum > \hFF)
    IN  update_zn([c1 EXCEPT !.a = result], result)

adc(c, value) ==
    LET carry == IF get_flag(c, CARRY) THEN 1 ELSE 0
        sum == c.a + value + carry
        result == Wrap8(sum)
        overflow == BitAnd(BitAnd(BitXor(c.a, result), BitXor(value, result)), \h80) # 0
        c1 == set_flag(set_flag(c, CARRY, sum > \hFF), OVERFLOW, overflow)
    IN  update_zn([c1 EXCEPT !.a = result], result)

sbc(c, value) == adc(c, \hFF - value)

and(c, value) ==
    LET r == BitAnd(c.a, value) IN update_zn([c EXCEPT !.a = r], r)

ora(c, value) ==
    LET r == BitOr(c.a, value) IN update_zn([c EXCEPT !.a = r], r)

eor(c, value) ==
    LET r == BitXor(c.a, value) IN update_zn([c EXCEPT !.a = r], r)

bit(c, value) ==
    set_flag(set_flag(set_flag(c, ZERO, BitAnd(c.a, value) = 0),
                      OVERFLOW, BitAnd(value, \h40) # 0),
             NEGATIVE, BitAnd(value, \h80) # 0)

compare(c, register, value) ==
    update_zn(set_flag(c, CARRY, register >= value), Wrap8(register - value + 256))

cmp(c, value) == compare(c, c.a, value)

cpx(c, value) == compare(c, c.x, value)

cpy(c, value) == compare(c, c.y, value)

\* The read-modify-write helpers inc, dec, asl, lsr, rol, ror share one
\* shape: read addr, compute, set Carry (shifts only), write back, update_zn.
modify(c, addr, op) ==
    Bind(bus_read(c.memory, addr), LAMBDA r :
        LET old == r.v
            carry == IF get_flag(c, CARRY) THEN 1 ELSE 0
            value == CASE op = "inc" -> Wrap8(old + 1)
                       [] op = "dec" -> Wrap8(old + 255)
                       [] op = "asl" -> Wrap8(old * 2)
                       [] op = "lsr" -> old \div 2
                       [] op = "rol" -> BitOr(Wrap8(old * 2), carry)
                       [] op = "ror" -> BitOr(old \div 2, carry * \h80)
            status == CASE op \in {"asl", "rol"} ->
                              set_flag(c, CARRY, BitAnd(old, \h80) # 0).status
                        [] op \in {"lsr", "ror"} ->
                              set_flag(c, CARRY, BitAnd(old, \h01) # 0).status
                        [] OTHER -> c.status
        IN  update_zn([c EXCEPT !.status = status,
                                !.memory = bus_write(r.mem, addr, value)], value))

inc(c, addr) == modify(c, addr, "inc")

dec(c, addr) == modify(c, addr, "dec")

asl(c, addr) == modify(c, addr, "asl")

lsr(c, addr) == modify(c, addr, "lsr")

rol(c, addr) == modify(c, addr, "rol")

ror(c, addr) == modify(c, addr, "ror")

asl_acc(c) ==
    LET r == Wrap8(c.a * 2)
    IN  update_zn([set_flag(c, CARRY, BitAnd(c.a, \h80) # 0) EXCEPT !.a = r], r)

lsr_acc(c) ==
    LET r == c.a \div 2
    IN  update_zn([set_flag(c, CARRY, BitAnd(c.a, \h01) # 0) EXCEPT !.a = r], r)

rol_acc(c) ==
    LET carry == IF get_flag(c, CARRY) THEN 1 ELSE 0
        r == BitOr(Wrap8(c.a * 2), carry)
    IN  update_zn([set_flag(c, CARRY, BitAnd(c.a, \h80) # 0) EXCEPT !.a = r], r)

ror_acc(c) ==
    LET carry == IF get_flag(c, CARRY) THEN \h80 ELSE 0
        r == BitOr(c.a \div 2, carry)
    IN  update_zn([set_flag(c, CARRY, BitAnd(c.a, \h01) # 0) EXCEPT !.a = r], r)

\* returns [c, cycles]; offset is the fetched byte read as i8
\* A wrong cost: a taken branch costs 3 cycles wherever it lands
branch_no_page_penalty(c, condition, offset) ==
    IF ~condition THEN [c |-> c, cycles |-> 2]
    ELSE LET rel == IF offset >= \h80 THEN offset - \h100 ELSE offset
         IN  [c |-> [c EXCEPT !.pc = Wrap16(c.pc + rel + \h10000)], cycles |-> 3]

branch(c, condition, offset) ==
    IF ~condition THEN [c |-> c, cycles |-> 2]
    ELSE LET old_pc == c.pc
             rel == IF offset >= \h80 THEN offset - \h100 ELSE offset
             pc == Wrap16(old_pc + rel + \h10000)
         IN  [c |-> [c EXCEPT !.pc = pc],
              cycles |-> IF (old_pc \div 256) # (pc \div 256) THEN 4 ELSE 3]

\* A wrong BRK: the status is pushed with Break clear, as an NMI pushes it
brk_break_clear(c) ==
    Bind(push_word([c EXCEPT !.pc = Wrap16(c.pc + 1)], Wrap16(c.pc + 1)), LAMBDA c2 :
    Bind(set_flag(push(c2, BitOr(remove(c2.status, BREAK), UNUSED)), INTERRUPT, TRUE),
         LAMBDA c4 :
    Bind(read_word(c4.memory, \hFFFE), LAMBDA w :
        [c4 EXCEPT !.memory = w.mem, !.pc = w.v])))

brk(c) ==
    Bind(push_word([c EXCEPT !.pc = Wrap16(c.pc + 1)], Wrap16(c.pc + 1)), LAMBDA c2 :
    Bind(set_flag(push(c2, BitOr(BitOr(c2.status, BREAK), UNUSED)), INTERRUPT, TRUE),
         LAMBDA c4 :
    Bind(read_word(c4.memory, \hFFFE), LAMBDA w :
        [c4 EXCEPT !.memory = w.mem, !.pc = w.v])))

\* The arms `let v = <operand>; self.op(v)` and `self.r = <operand>; update_zn`
apply_value(c, op, v) ==
    CASE op = "adc" -> adc(c, v)
      [] op = "sbc" -> sbc(c, v)
      [] op = "and" -> and(c, v)
      [] op = "ora" -> ora(c, v)
      [] op = "eor" -> eor(c, v)
      [] op = "bit" -> bit(c, v)
      [] op = "cmp" -> cmp(c, v)
      [] op = "cpx" -> cpx(c, v)
      [] op = "cpy" -> cpy(c, v)
      [] op = "lda" -> update_zn([c EXCEPT !.a = v], v)
      [] op = "ldx" -> update_zn([c EXCEPT !.x = v], v)
      [] op = "ldy" -> update_zn([c EXCEPT !.y = v], v)

ValueOps == {"adc", "sbc", "and", "ora", "eor", "bit", "cmp", "cpx", "cpy",
             "lda", "ldx", "ldy"}

ModifyOps == {"inc", "dec", "asl", "lsr", "rol", "ror"}

StoreOps == {"sta", "stx", "sty"}

BranchOps == {"bcc", "bcs", "bzc", "bzs", "bnc", "bns", "bvc", "bvs"}

\* the condition handed to branch: b<flag>s branches on flag set, b<flag>c on clear
branch_condition(c, op) ==
    CASE op = "bcc" -> ~get_flag(c, CARRY)
      [] op = "bcs" -> get_flag(c, CARRY)
      [] op = "bzc" -> ~get_flag(c, ZERO)
      [] op = "bzs" -> get_flag(c, ZERO)
      [] op = "bnc" -> ~get_flag(c, NEGATIVE)
      [] op = "bns" -> get_flag(c, NEGATIVE)
      [] op = "bvc" -> ~get_flag(c, OVERFLOW)
      [] op = "bvs" -> get_flag(c, OVERFLOW)

\* the arms that take no operand through an addressing helper
implied(c, op) ==
    CASE op = "brk" -> brk(c)
      [] op = "asl_acc" -> asl_acc(c)
      [] op = "lsr_acc" -> lsr_acc(c)
      [] op = "rol_acc" -> rol_acc(c)
      [] op = "ror_acc" -> ror_acc(c)
      [] op = "clc" -> set_flag(c, CARRY, FALSE)
      [] op = "cld" -> set_flag(c, DECIMAL, FALSE)
      [] op = "cli" -> set_flag(c, INTERRUPT, FALSE)
      [] op = "clv" -> set_flag(c, OVERFLOW, FALSE)
      [] op = "sec" -> set_flag(c, CARRY, TRUE)
      [] op = "sed" -> set_flag(c, DECIMAL, TRUE)
      [] op = "sei" -> set_flag(c, INTERRUPT, TRUE)
      [] op = "dex" -> LET r == Wrap8(c.x + 255) IN update_zn([c EXCEPT !.x = r], r)
      [] op = "dey" -> LET r == Wrap8(c.y + 255) IN update_zn([c EXCEPT !.y = r], r)
      [] op = "inx" -> LET r == Wrap8(c.x + 1) IN update_zn([c EXCEPT !.x = r], r)
      [] op = "iny" -> LET r == Wrap8(c.y + 1) IN update_zn([c EXCEPT !.y = r], r)
      [] op = "jsr" -> Bind(fetch_word(c), LAMBDA f :
                           [push_word(f.c, Wrap16(f.c.pc + \hFFFF)) EXCEPT !.pc = f.v])
      [] op = "nop" -> c
      [] op = "pha" -> push(c, c.a)
      [] op = "php" -> push(c, BitOr(BitOr(c.status, BREAK), UNUSED))
      [] op = "pla" -> Bind(pop(c), LAMBDA r : update_zn([r.c EXCEPT !.a = r.v], r.v))
      [] op = "plp" -> Bind(pop(c), LAMBDA r :
                           [r.c EXCEPT !.status = remove(BitOr(r.v, UNUSED), BREAK)])
      [] op = "rti" -> Bind(pop(c), LAMBDA r :
                       Bind(pop_word([r.c EXCEPT !.status = remove(BitOr(r.v, UNUSED), BREAK)]),
                            LAMBDA w : [w.c EXCEPT !.pc = w.v]))
      [] op = "rts" -> Bind(pop_word(c), LAMBDA w : [w.c EXCEPT !.pc = Wrap16(w.v + 1)])
      [] op = "tax" -> update_zn([c EXCEPT !.x = c.a], c.a)
      [] op = "tay" -> update_zn([c EXCEPT !.y = c.a], c.a)
      [] op = "tsx" -> update_zn([c EXCEPT !.x = c.sp], c.sp)
      [] op = "txa" -> update_zn([c EXCEPT !.a = c.x], c.x)
      [] op = "txs" -> [c EXCEPT !.sp = c.x]
      [] op = "tya" -> update_zn([c EXCEPT !.a = c.y], c.y)

\* Result<u8>
OkCycles(n) == [ok |-> TRUE, v |-> n]

\* A wrong result: an unknown opcode is reported as a two-cycle success
InvalidOpcode_accepted(opcode) == [ok |-> TRUE, v |-> 2]

InvalidOpcode(opcode) == [ok |-> FALSE, v |-> opcode]

\* `self.cycles += cycles as u64; Ok(cycles)`
finish(c, cycles) == [c |-> [c EXCEPT !.cycles = @ + cycles], r |-> OkCycles(cycles)]

\* Cpu6502::execute; returns [c, r]
execute(c, opcode) ==
    LET cycles == OpcodeCycles[opcode + 1]
        arm == ExecuteArm[opcode + 1]
        op == arm[1]
        mode == arm[2]
        extra(p) == IF arm[3] /\ p THEN 1 ELSE 0
    IN  IF cycles = 0 \/ op = "" THEN [c |-> c, r |-> InvalidOpcode(opcode)]
        ELSE IF op \in BranchOps
        THEN Bind(fetch_byte(c), LAMBDA f :
             Bind(branch(f.c, branch_condition(f.c, op), f.v), LAMBDA b :
                 finish(b.c, b.cycles)))
        ELSE IF op \in ValueOps /\ mode = "imm"
        THEN Bind(fetch_byte(c), LAMBDA f : finish(apply_value(f.c, op, f.v), cycles))
        ELSE IF op \in ValueOps \cup StoreOps \cup ModifyOps \cup {"jmp"}
        THEN Bind(operand_address(c, mode), LAMBDA ad :
                 CASE op \in ValueOps ->
                        Bind(bus_read(ad.c.memory, ad.addr), LAMBDA rd :
                            finish(apply_value([ad.c EXCEPT !.memory = rd.mem], op, rd.v),
                                   cycles + extra(ad.p)))
                   [] op \in StoreOps ->
                        LET reg == CASE op = "sta" -> c.a [] op = "stx" -> c.x
                                     [] op = "sty" -> c.y
                        IN  finish([ad.c EXCEPT !.memory = bus_write(ad.c.memory, ad.addr, reg)],
                                   cycles + extra(ad.p))
                   [] op \in ModifyOps ->
                        finish(modify(ad.c, ad.addr, op), cycles + extra(ad.p))
                   [] op = "jmp" -> finish([ad.c EXCEPT !.pc = ad.addr], cycles))
        ELSE finish(implied(c, op), cycles)

\* A wrong reset: SP is lowered by three, as by the three pushes the
\* hardware suppresses, instead of being set
cpu_reset_sp_lowered(c) ==
    Bind(read_word(c.memory, \hFFFC), LAMBDA w :
        [c EXCEPT !.a = 0, !.x = 0, !.y = 0, !.sp = (c.sp + 253) % 256,
                  !.status = BitOr(INTERRUPT, UNUSED),
                  !.memory = w.mem, !.pc = w.v, !.cycles = 0])

\* <Cpu6502 as Cpu>::reset
cpu_reset(c) ==
    Bind(read_word(c.memory, \hFFFC), LAMBDA w :
        [c EXCEPT !.a = 0, !.x = 0, !.y = 0, !.sp = \hFD,
                  !.status = BitOr(INTERRUPT, UNUSED),
                  !.memory = w.mem, !.pc = w.v, !.cycles = 0])

\* <Cpu6502 as Cpu>::step as cpu/mod.rs has it; returns [c, r]
cpu_step(c) ==
    Bind(fetch_byte(c), LAMBDA f : execute(f.c, f.v))

\* Cpu6502::nmi, which system.rs:96 calls: the NMI becomes pending
nmi(c) == [c EXCEPT !.nmi_pending = TRUE]

\* The interrupt sequence of a pending NMI: push PC high, PC low, the status
\* with Break clear and Unused set, set InterruptDisable, load PC from
\* $FFFA/$FFFB; 7 cycles.
service_nmi(c) ==
    Bind(push_word([c EXCEPT !.nmi_pending = FALSE], c.pc), LAMBDA c1 :
    Bind(set_flag(push(c1, BitOr(remove(c1.status, BREAK), UNUSED)), INTERRUPT, TRUE),
         LAMBDA c3 :
    Bind(read_word(c3.memory, \hFFFA), LAMBDA w :
        finish([c3 EXCEPT !.memory = w.mem, !.pc = w.v], 7))))

\* The `self.cpu.step()` that NesSystem::step calls: a pending NMI is
\* serviced instead of an opcode fetch.
cpu_step_polled(c) ==
    IF c.nmi_pending THEN service_nmi(c) ELSE cpu_step(c)

---------------------------------------------------------------------------
(* NesSystem (system.rs).  The system is the pair <<cpu, frame>>; its      *)
(* operators take and return the cpu, which owns the bus.                  *)

CYCLES_PER_FRAME == 29780

\* NesSystem::new on a ROM image that loads
system_new(image) == cpu_reset(CpuNew(load_cartridge(NesMemoryNew, image)))

\* NesSystem::with_prg_rom
with_prg_rom(image) == cpu_reset(CpuNew(load_prg_rom(NesMemoryNew, image)))

\* A wrong NMI check: the flag is cleared but the CPU is not told
ppu_dot_nmi_dropped(c) ==
    [c EXCEPT !.memory = [c.memory EXCEPT !.ppu = [tick(@) EXCEPT !.nmi_interrupt = FALSE]]]

\* A wrong NMI check: every arrival at VBlank is passed to the CPU, whether
\* or not the PPU raised its flag
ppu_dot_nmi_every_vblank(c) ==
    Bind([c.memory EXCEPT !.ppu = tick(@)], LAMBDA m :
        IF m.ppu.nmi_interrupt \/ (m.ppu.scanline = 241 /\ m.ppu.cycle = 1)
        THEN nmi([c EXCEPT !.memory = [m EXCEPT !.ppu.nmi_interrupt = FALSE]])
        ELSE [c EXCEPT !.memory = m])

\* one pass of the inner `for _ in 0..3` loop: tick, then the NMI check
ppu_dot(c) ==
    Bind([c.memory EXCEPT !.ppu = tick(@)], LAMBDA m :
        IF m.ppu.nmi_interrupt
        THEN nmi([c EXCEPT !.memory = [m EXCEPT !.ppu.nmi_interrupt = FALSE]])
        ELSE [c EXCEPT !.memory = m])

\* A wrong ratio: the PPU is ticked twice per CPU cycle
clock_cycle_two_dots(c) ==
    ppu_dot(ppu_dot([c EXCEPT !.memory.apu = apu_clock(@)]))

\* one pass of the outer `for _ in 0..cycles` loop
clock_cycle(c) ==
    ppu_dot(ppu_dot(ppu_dot([c EXCEPT !.memory.apu = apu_clock(@)])))

RECURSIVE clock_cycles(_, _)
clock_cycles(c, n) == IF n = 0 THEN c ELSE clock_cycles(clock_cycle(c), n - 1)

\* NesSystem::step; returns [c, r]
step(c) ==
    Bind(cpu_step_polled(c), LAMBDA s :
        IF ~s.r.ok THEN s
        ELSE [c |-> clock_cycles(s.c, s.r.v), r |-> s.r])

---------------------------------------------------------------------------
(* The caller.  `host` is the caller's position: `pc` is "idle" between    *)
(* entry points and "run_frame" inside NesSystem::run_frame's loop, where  *)
(* `target` and `start` are run_cycles' target and the cycle counter on    *)
(* entry; `ops` counts the entry points called.  `ret` is what the last    *)
(* entry point was called with and what it returned.                       *)

HostIdle == [pc |-> "idle", target |-> 0, start |-> 0, ops |-> 0]

Ret(op, addr, value, result, ok) ==
    [op |-> op, addr |-> addr, value |-> value, result |-> result, ok |-> ok]

RetNone == Ret("none", 0, 0, 0, TRUE)

\* an entry point begins with no callback delivered yet
Enter(mem) == [mem EXCEPT !.observed = << >>]

\* the thread has not panicked
Alive == ~cpu.memory.panicked

---------------------------------------------------------------------------
(* The bus under direct accesses: a machine is constructed, with one of    *)
(* the cartridges or none, and its bus is read and written.                *)

MaxBusOps == 3

MaxObservers == 2

BusCarts == {"none", "nrom16", "nrom32", "gxrom"}

\* addresses the caller reads and writes: RAM and two of its mirrors, PPU
\* registers and mirrors, OAM DMA, APU status, a controller port, the
\* unmapped I/O range, and cartridge space below and above $8000
BusAddrs == {\h0001, \h0801, \h1FFF, \h2002, \h2006, \h2007, \h3FFF,
             \h4014, \h4016, \h401F, \h6000, \h8000}

BusValues == {\h00, \h11}

Contexts == {ContextNew, [frame |-> 1, cycle |-> 7, pc |-> \h8000, last_input |-> 0]}

InitBus ==
    /\ profile \in Profiles
    /\ \E cart \in BusCarts :
          cpu = IF cart = "none" THEN CpuNew(NesMemoryNew) ELSE system_new(cart)
    /\ frame = 0
    /\ host = HostIdle
    /\ ret = RetNone

BusOp == Alive /\ host.pc = "idle" /\ host.ops < MaxBusOps

\* CpuMemory::read on the bus
BusRead(a) ==
    /\ BusOp
    /\ \E r \in {bus_read(Enter(cpu.memory), a)} :
           /\ cpu' = [cpu EXCEPT !.memory = r.mem]
           /\ ret' = Ret("read", a, 0, r.v, ~r.mem.panicked)
    /\ host' = [host EXCEPT !.ops = @ + 1]
    /\ UNCHANGED <<frame, profile>>

\* CpuMemory::write on the bus
BusWrite(a, d) ==
    /\ BusOp
    /\ \E m \in {bus_write(Enter(cpu.memory), a, d)} :
           /\ cpu' = [cpu EXCEPT !.memory = m]
           /\ ret' = Ret("write", a, d, 0, ~m.panicked)
    /\ host' = [host EXCEPT !.ops = @ + 1]
    /\ UNCHANGED <<frame, profile>>

\* NesSystem::read_memory
read_memory(c, addr) ==
    LET r == bus_read(c.memory, addr) IN [c |-> [c EXCEPT !.memory = r.mem], v |-> r.v]

ReadMemory(a) ==
    /\ BusOp
    /\ cpu.memory.cartridge # << >>
    /\ \E r \in {read_memory([cpu EXCEPT !.memory = Enter(@)], a)} :
           /\ cpu' = r.c
           /\ ret' = Ret("read_memory", a, 0, r.v, ~r.c.memory.panicked)
    /\ host' = [host EXCEPT !.ops = @ + 1]
    /\ UNCHANGED <<frame, profile>>

\* MemoryBus::attach_observer with a new observer o
AttachObserver(o) ==
    /\ BusOp
    /\ \A i \in DOMAIN cpu.memory.observers : cpu.memory.observers[i] # o
    /\ cpu' = [cpu EXCEPT !.memory = attach_observer(Enter(@), o)]
    /\ ret' = Ret("attach_observer", 0, o, 0, TRUE)
    /\ host' = [host EXCEPT !.ops = @ + 1]
    /\ UNCHANGED <<frame, profile>>

ClearObservers ==
    /\ BusOp
    /\ cpu' = [cpu EXCEPT !.memory = clear_observers(Enter(@))]
    /\ ret' = Ret("clear_observers", 0, 0, 0, TRUE)
    /\ host' = [host EXCEPT !.ops = @ + 1]
    /\ UNCHANGED <<frame, profile>>

UpdateContext(ctx) ==
    /\ BusOp
    /\ cpu' = [cpu EXCEPT !.memory = update_context(Enter(@), ctx)]
    /\ ret' = Ret("update_context", 0, 0, 0, TRUE)
    /\ host' = [host EXCEPT !.ops = @ + 1]
    /\ UNCHANGED <<frame, profile>>

NextBus ==
    \/ \E a \in BusAddrs : BusRead(a)
    \/ \E a \in BusAddrs, d \in BusValues : BusWrite(a, d)
    \/ \E a \in BusAddrs : ReadMemory(a)
    \/ \E o \in 1 .. MaxObservers : AttachObserver(o)
    \/ ClearObservers
    \/ \E ctx \in Contexts : UpdateContext(ctx)

SpecBus == InitBus /\ [][NextBus]_vars

---------------------------------------------------------------------------
(* Properties of the bus                                                   *)

\* the machine without the record of delivered callbacks
Machine(c) == [c EXCEPT !.memory.observed = << >>]

\* RAM cells probed: the cells the caller writes and two it never writes
RamProbe == {\h0000, \h0001, \h0400, \h07FF}

\* C5: for every RAM cell a in $0000-$07FF the bus reads the same byte at a,
\* a+$0800, a+$1000 and a+$1800, and after a write of d to an address in
\* $0000-$1FFF a read of every address with the same low 11 bits returns d.
C5_RamMirrored ==
    Alive =>
      /\ \A a \in RamProbe : \A k \in 1 .. 3 :
            bus_read(cpu.memory, a + k * \h0800).v = bus_read(cpu.memory, a).v
      /\ (ret.op = "write" /\ ret.addr <= \h1FFF) =>
            \A k \in 0 .. 3 :
               bus_read(cpu.memory, (ret.addr % \h0800) + k * \h0800).v = ret.value

\* a non-zero byte written through the mirror $0801 is read back at $0001
C5_Witness ==
    /\ ret.op = "write" /\ ret.addr = \h0801 /\ ret.value # 0
    /\ bus_read(cpu.memory, \h0001).v = ret.value
    /\ bus_read(cpu.memory, \h1801).v = ret.value

\* mirrors of the eight PPU registers at both ends of $2000-$3FFF
PpuProbe == (\h2008 .. \h200F) \cup (\h3FF8 .. \h3FFF) \cup {\h2ABA, \h3456}

\* C6: for every address a in $2000-$3FFF a bus read or write at a returns
\* the same value and leaves the PPU in the same state as the same access
\* at $2000 + (a & 7).
C6_PpuRegistersMirrored ==
    Alive =>
      \A a \in PpuProbe :
         LET b == \h2000 + (a % 8)
             ra == bus_read(cpu.memory, a)
             rb == bus_read(cpu.memory, b)
         IN  /\ ra.v = rb.v
             /\ ra.mem.ppu = rb.mem.ppu
             /\ \A d \in BusValues :
                   bus_write(cpu.memory, a, d).ppu = bus_write(cpu.memory, b, d).ppu

\* the VRAM address has been set through $2006 and a read through the mirror
\* $3FFF of $2007 has advanced it
C6_Witness ==
    /\ ret.op = "read" /\ ret.addr = \h3FFF
    /\ cpu.memory.ppu.vram_addr > \h0100
    /\ cpu.memory.ppu.vram_addr % \h0100 = \h01

\* C7: a bus write of X to $4014 copies the 256 bytes at $XX00-$XXFF into
\* OAM, byte i landing at OAM[(OAMADDR + i) mod 256].
C7_OamDma ==
    [][\A X \in BusValues :
          BusWrite(\h4014, X) =>
             \A i \in 0 .. 255 :
                Load(cpu'.memory.ppu.oam, (cpu.memory.ppu.oam_addr + i) % 256)
                   = bus_read(cpu.memory, X * 256 + i).v]_vars

\* an address that decodes to nothing: the unmapped I/O range, and cartridge
\* space with no PRG behind it (PRG sits at $8000-$FFFF of a cartridge)
Unbacked(mem, a) ==
    \/ a \in \h4018 .. \h401F
    \/ a >= \h4020 /\ (mem.cartridge = << >> \/ a < \h8000)

\* C8: a bus read returns a byte without failing, a read of an address that
\* decodes to nothing returns $FF, and a write to such an address does not
\* fail and changes no state.
C8_BusNeverFails ==
    [][\A a \in BusAddrs :
          /\ BusRead(a) =>
                /\ ret'.ok
                /\ Unbacked(cpu.memory, a) => ret'.result = \hFF
          /\ \A d \in BusValues :
                BusWrite(a, d) =>
                   /\ ret'.ok
                   /\ Unbacked(cpu.memory, a) => Machine(cpu') = Machine(cpu)]_vars

\* C9: read_memory leaves the CPU and everything on the bus unchanged, and a
\* second read_memory of the same address returns the same byte.
C9_ReadMemoryPure ==
    [][\A a \in BusAddrs :
          ReadMemory(a) =>
             /\ Machine(cpu') = Machine(cpu)
             /\ read_memory(cpu', a).v = ret'.result]_vars

\* the callbacks one access delivers when every attached observer is called
\* once, in attach order
Callbacks(observers, kind, address, value, old_value, context) ==
    [i \in DOMAIN observers |->
        [observer |-> observers[i], kind |-> kind, address |-> address,
         value |-> value, old_value |-> old_value, context |-> context]]

\* C10 (as the code has it): for every bus read or write, each observer
\* attached at that moment is invoked exactly once, after the access, in
\* attach order, with the address, the value read or written, for a write the
\* byte the bus read at that address just before writing, and the current
\* EmulatorContext; after clear_observers no observer is attached, so none
\* is invoked.
C10_ObserversCalledOnce ==
    [][/\ (ret'.op \in {"read", "read_memory"} /\ ret'.ok) =>
             cpu'.memory.observed =
                Callbacks(cpu.memory.observers, "on_read", ret'.addr, ret'.result, 0,
                          cpu.memory.context)
       /\ (ret'.op = "write" /\ ret'.ok) =>
             cpu'.memory.observed =
                Callbacks(cpu.memory.observers, "on_write", ret'.addr, ret'.value,
                          read_internal(cpu.memory, ret'.addr).v, cpu.memory.context)
       /\ ret'.op = "clear_observers" => cpu'.memory.observers = << >>
       /\ (cpu.memory.observers = << >> /\ ret'.op \in {"read", "write", "read_memory"})
             => cpu'.memory.observed = << >>]_vars

\* two observers, attached 2 then 1, have each received the callback of a
\* read, observer 2 first
C10_Witness ==
    /\ ret.op = "read" /\ ret.ok
    /\ cpu.memory.observers = << 2, 1 >>
    /\ Len(cpu.memory.observed) = 2
    /\ cpu.memory.observed[1].observer = 2
    /\ cpu.memory.observed[2].observer = 1

\* C10 (as stated): each attached observer is invoked both before and after
\* every access, in attach order, so an access delivers every observer's
\* callback twice.
C10_ObserversCalledBeforeAndAfter ==
    [][(ret'.op = "read" /\ ret'.ok) =>
          \E before \in Byte :
             cpu'.memory.observed =
                Callbacks(cpu.memory.observers, "on_read", ret'.addr, before, 0,
                          cpu.memory.context)
                \o Callbacks(cpu.memory.observers, "on_read", ret'.addr, ret'.result, 0,
                             cpu.memory.context)]_vars

\* PRG addresses probed: the program's first bytes, the interrupt vectors
\* and the ends of the two 16 KiB halves
PrgProbe == {\h8000, \h8001, \hBFFA, \hBFFC, \hBFFD, \hBFFF,
             \hC000, \hC001, \hFFFA, \hFFFC, \hFFFD, \hFFFF}

\* C15: under mapper 0, whatever has been written on the bus, with a 16 KiB
\* PRG every address a in $8000-$BFFF reads the same byte as a+$4000, the
\* image's PRG[a & $3FFF], and with a 32 KiB PRG every address a in
\* $8000-$FFFF reads the image's PRG[a - $8000].
C15_NromPrgMapping ==
    (Alive /\ cpu.memory.cartridge # << >> /\ cpu.memory.cartridge[1].header.mapper = 0) =>
        LET image == cpu.memory.cartridge[1].image
        IN  \A a \in PrgProbe :
               IF PrgLen(image) = \h4000
               THEN a < \hC000 =>
                       /\ bus_read(cpu.memory, a).v = PrgByte(image, BitAnd(a, \h3FFF))
                       /\ bus_read(cpu.memory, a + \h4000).v = bus_read(cpu.memory, a).v
               ELSE bus_read(cpu.memory, a).v = PrgByte(image, a - \h8000)

\* $11 has been written to $8000 of the 16 KiB cartridge and $C000 still
\* reads the program's first byte
C15_Witness ==
    /\ ret.op = "write" /\ ret.addr = \h8000 /\ ret.value = \h11 /\ ret.ok
    /\ cpu.memory.cartridge # << >>
    /\ cpu.memory.cartridge[1].image = "nrom16"
    /\ bus_read(cpu.memory, \hC000).v = PrgByte("nrom16", 0)
    /\ PrgByte("nrom16", 0) # \h11

---------------------------------------------------------------------------
(* The PPU under direct ticks and register accesses, from power-on, as     *)
(* ppu.rs's tests drive it.  The PPU is the one the machine's bus owns.    *)

MaxPpuFrames == 1

\* the caller accesses registers only in the first dots of a scanline, which
\* is where the PPU's flags change
MaxAccessDot == 2

PpuRegs == {\h2000, \h2002}

PpuValues == {\h00, \h80}

InitPpu ==
    /\ profile \in Profiles
    /\ cpu = CpuNew(NesMemoryNew)
    /\ frame = 0
    /\ host = HostIdle
    /\ ret = RetNone

\* Ppu::tick
PpuTick ==
    /\ cpu.memory.ppu.frame < MaxPpuFrames
    /\ cpu' = [cpu EXCEPT !.memory.ppu = tick(@)]
    /\ ret' = Ret("tick", 0, 0, 0, TRUE)
    /\ UNCHANGED <<frame, host, profile>>

\* Ppu::read_register
PpuAccess ==
    /\ cpu.memory.ppu.frame < MaxPpuFrames
    /\ cpu.memory.ppu.cycle <= MaxAccessDot

PpuRead(a) ==
    /\ PpuAccess
    /\ \E r \in {read_register(cpu.memory.ppu, a)} :
           /\ cpu' = [cpu EXCEPT !.memory.ppu = r.ppu]
           /\ ret' = Ret("read", a, 0, r.v, TRUE)
    /\ UNCHANGED <<frame, host, profile>>

\* Ppu::write_register
PpuWrite(a, d) ==
    /\ PpuAccess
    /\ cpu' = [cpu EXCEPT !.memory.ppu = write_register(@, a, d)]
    /\ ret' = Ret("write", a, d, 0, TRUE)
    /\ UNCHANGED <<frame, host, profile>>

NextPpu ==
    \/ PpuTick
    \/ \E a \in PpuRegs : PpuRead(a)
    \/ \E a \in PpuRegs, d \in PpuValues : PpuWrite(a, d)

SpecPpu == InitPpu /\ [][NextPpu]_vars

VBlankSet(ppu) == contains(ppu.status, VBLANK)

\* the PPU is at scanline s, dot d
At(ppu, s, d) == ppu.scanline = s /\ ppu.cycle = d

\* C3: under ticks from power-on the VBlank bit of STATUS becomes set
\* exactly on the tick that brings the PPU to scanline 241 dot 1, becomes
\* clear on the tick that brings it to scanline 261 dot 1 or on a read of
\* $2002, a $2002 read returns the flag as it was before the read, and the
\* flag is clear at every position outside 241:1 .. 261:0.
C3_VBlankTiming ==
    /\ [](VBlankSet(cpu.memory.ppu) =>
            \/ cpu.memory.ppu.scanline = 241 /\ cpu.memory.ppu.cycle >= 1
            \/ cpu.memory.ppu.scanline \in 242 .. 260
            \/ At(cpu.memory.ppu, 261, 0))
    /\ [][LET old == cpu.memory.ppu
              new == cpu'.memory.ppu
              read2002 == ret'.op = "read" /\ register_index(ret'.addr) = 2
          IN  /\ (ret'.op = "tick" /\ At(new, 241, 1)) => VBlankSet(new)
              /\ (~VBlankSet(old) /\ VBlankSet(new)) => (ret'.op = "tick" /\ At(new, 241, 1))
              /\ (ret'.op = "tick" /\ At(new, 261, 1)) => ~VBlankSet(new)
              /\ (VBlankSet(old) /\ ~VBlankSet(new)) =>
                    (ret'.op = "tick" /\ At(new, 261, 1)) \/ read2002
              /\ read2002 =>
                    /\ ret'.result = old.status
                    /\ (BitAnd(ret'.result, VBLANK) # 0) = VBlankSet(old)
                    /\ ~VBlankSet(new)]_vars

\* a $2002 read during VBlank has returned the set flag and cleared it
C3_Witness ==
    /\ ret.op = "read" /\ ret.addr = \h2002
    /\ BitAnd(ret.result, VBLANK) # 0
    /\ ~VBlankSet(cpu.memory.ppu)
    /\ At(cpu.memory.ppu, 241, 1)

---------------------------------------------------------------------------
(* The running system: a machine is constructed from a ROM image (or, for  *)
(* "test", from raw PRG by with_prg_rom) and the caller calls step and     *)
(* run_frame.  run_frame's loop is one action per iteration.  An action    *)
(* binds the result of the call it makes with \E over a singleton, so that *)
(* the call is evaluated once.                                             *)

\* entry points the caller calls
MaxCalls == 2

SysImages == {"test", "nrom16", "nrom32", "gxrom"}

Init ==
    /\ profile \in Profiles
    /\ \E image \in SysImages :
          cpu = IF image = "test" THEN with_prg_rom(image) ELSE system_new(image)
    /\ frame = 0
    /\ host = HostIdle
    /\ ret = RetNone

\* the record a step that ran to its end leaves; a panic leaves Ret(.., FALSE)
StepResult(op, s) ==
    IF s.c.memory.panicked THEN Ret(op, 0, 0, 0, FALSE)
    ELSE Ret(op, IF s.r.ok THEN 0 ELSE s.r.v, 0, IF s.r.ok THEN s.r.v ELSE 0, s.r.ok)

\* NesSystem::step called by the caller
Step ==
    /\ Alive /\ host.pc = "idle" /\ host.ops < MaxCalls
    /\ \E s \in {step([cpu EXCEPT !.memory = Enter(@)])} :
           /\ cpu' = s.c
           /\ ret' = StepResult("step", s)
    /\ host' = [host EXCEPT !.ops = @ + 1]
    /\ UNCHANGED <<frame, profile>>

\* A wrong target: the cycles already run are not added
run_cycles_target_absolute(c, cycles) == cycles

\* `let target = self.cpu.cycles + cycles`
run_cycles_target(c, cycles) == c.cycles + cycles

\* NesSystem::run_frame is entered: run_cycles computes its target
RunFrameBegin ==
    /\ Alive /\ host.pc = "idle" /\ host.ops < MaxCalls
    /\ host' = [pc |-> "run_frame", target |-> run_cycles_target(cpu, CYCLES_PER_FRAME),
                start |-> cpu.cycles, ops |-> host.ops + 1]
    /\ cpu' = [cpu EXCEPT !.memory = Enter(@)]
    /\ ret' = Ret("run_frame_entered", 0, 0, 0, TRUE)
    /\ UNCHANGED <<frame, profile>>

\* one iteration of run_cycles' loop: `self.step()?`
RunFrameStep ==
    /\ Alive /\ host.pc = "run_frame"
    /\ cpu.cycles < host.target
    /\ \E s \in {step(cpu)} :
           /\ cpu' = s.c
           /\ IF s.r.ok /\ ~s.c.memory.panicked
              THEN /\ host' = host
                   /\ ret' = StepResult("run_frame_step", s)
              ELSE /\ host' = [host EXCEPT !.pc = "idle"]
                   /\ ret' = StepResult("run_frame", s)
    /\ UNCHANGED <<frame, profile>>

\* the loop is left: `self.frame += 1; Ok(())`
RunFrameEnd ==
    /\ Alive /\ host.pc = "run_frame"
    /\ cpu.cycles >= host.target
    /\ frame' = frame + 1
    /\ host' = [host EXCEPT !.pc = "idle"]
    /\ ret' = Ret("run_frame", 0, 0, cpu.cycles - host.start, TRUE)
    /\ UNCHANGED <<cpu, profile>>

Next ==
    \/ Step
    \/ RunFrameBegin
    \/ RunFrameStep
    \/ RunFrameEnd

Spec == Init /\ [][Next]_vars

---------------------------------------------------------------------------
(* Properties of the running system                                        *)

\* the dots the PPU has advanced since power-on: 262 scanlines of 341 dots
Dots(ppu) == (ppu.frame * 262 + ppu.scanline) * 341 + ppu.cycle

\* the last transition was a NesSystem::step, called directly or by run_frame
Stepped(r) == r.op \in {"step", "run_frame_step"} \/ (r.op = "run_frame" /\ ~r.ok)

\* C1: a step that returns Ok(c) clocks the APU exactly c times and ticks
\* the PPU exactly 3*c times, a step that returns an error clocks neither,
\* and so after any steps since construction the APU cycle counter equals
\* the CPU cycle counter and the PPU has advanced 3 dots per CPU cycle.
C1_ClockRatio ==
    /\ [](Alive =>
            /\ cpu.memory.apu.cycle = cpu.cycles
            /\ Dots(cpu.memory.ppu) = 3 * cpu.cycles)
    /\ [][Stepped(ret') =>
            LET c == IF ret'.ok THEN ret'.result ELSE 0
            IN  /\ ret'.ok => c \in 1 .. 7
                /\ cpu'.memory.apu.cycle = cpu.memory.apu.cycle + c
                /\ Dots(cpu'.memory.ppu) = Dots(cpu.memory.ppu) + 3 * c
                /\ cpu'.cycles = cpu.cycles + c]_vars

\* a 7-cycle step has run after the PPU wrapped into its second frame
C1_Witness ==
    /\ ret.op = "run_frame_step" /\ ret.ok /\ ret.result = 7
    /\ cpu.memory.ppu.frame = 1
    /\ cpu.memory.apu.cycle > CYCLES_PER_FRAME

\* the dot count at which the PPU reaches scanline 241 dot 1 of frame f
VBlankDot(f) == (f * 262 + 241) * 341 + 1

\* the ticks of the transition brought the PPU to scanline 241 dot 1
ReachedVBlank(old, new) ==
    \E f \in {old.frame, new.frame} : Dots(old) < VBlankDot(f) /\ VBlankDot(f) <= Dots(new)

\* the byte at stack offset sp
StackByte(c, sp) == Load(c.memory.ram, \h0100 + (sp % 256))

C4_RunFrame ==
    [][/\ (ret'.op = "run_frame" /\ ret'.ok) =>
             /\ frame' = frame + 1
             /\ cpu'.cycles - host.start \in 29780 .. 29786
             /\ ret'.result = cpu'.cycles - host.start
       /\ ret'.op = "run_frame_step" =>
             /\ cpu'.cycles \in (cpu.cycles + 1) .. (cpu.cycles + 7)
             /\ cpu.cycles < host.start + 29780
       /\ ~(ret'.op = "run_frame" /\ ret'.ok) => frame' = frame]_vars

\* a second run_frame has returned Ok, having overshot 29780 cycles
C4_Witness ==
    /\ ret.op = "run_frame" /\ ret.ok
    /\ frame = 2
    /\ ret.result > 29780

---------------------------------------------------------------------------
(* A controller under direct use: the caller presses and releases buttons, *)
(* writes the strobe and reads the port.  The controller is controller 1   *)
(* of the machine's bus.  `host` keeps what the caller itself has done:    *)
(* whether its last write left the strobe high, the mask it held when it   *)
(* brought the strobe from 1 to 0 (-1 before that), and how many reads it  *)
(* has made since.                                                         *)

\* reads the caller makes after one latch
MaxPadReads == 10

\* the buttons the caller presses and releases: A, B, Start, Right
PadButtons == {\h01, \h02, \h08, \h80}

\* bytes written to the strobe
PadValues == {\h00, \h01, \h02, \h03}

HostPad == [pc |-> "idle", strobe |-> FALSE, latched |-> -1, reads |-> 0]

InitPad ==
    /\ profile \in Profiles
    /\ cpu = CpuNew(NesMemoryNew)
    /\ frame = 0
    /\ host = HostPad
    /\ ret = RetNone

\* ControllerState::set
PadSet(button, pressed) ==
    /\ cpu' = [cpu EXCEPT !.memory.controller1 = ControllerSet(@, button, pressed)]
    /\ ret' = Ret("pad_set", 0, button, 0, TRUE)
    /\ UNCHANGED <<frame, host, profile>>

\* Controller::write
PadWrite(value) ==
    /\ cpu' = [cpu EXCEPT !.memory.controller1 = ControllerWrite(@, value)]
    /\ ret' = Ret("pad_write", 0, value, 0, TRUE)
    /\ host' = IF value % 2 = 1
               THEN [host EXCEPT !.strobe = TRUE, !.latched = -1, !.reads = 0]
               ELSE IF host.strobe
               THEN [host EXCEPT !.strobe = FALSE,
                                 !.latched = cpu.memory.controller1.state.buttons,
                                 !.reads = 0]
               ELSE host
    /\ UNCHANGED <<frame, profile>>

\* Controller::read
PadRead ==
    /\ host.reads < MaxPadReads
    /\ \E r \in {ControllerRead(cpu.memory.controller1)} :
           /\ cpu' = [cpu EXCEPT !.memory.controller1 = r.c]
           /\ ret' = Ret("pad_read", 0, 0, r.v, TRUE)
    /\ host' = IF host.latched >= 0 THEN [host EXCEPT !.reads = @ + 1] ELSE host
    /\ UNCHANGED <<frame, profile>>

NextPad ==
    \/ \E button \in PadButtons, pressed \in BOOLEAN : PadSet(button, pressed)
    \/ \E value \in PadValues : PadWrite(value)
    \/ PadRead

SpecPad == InitPad /\ [][NextPad]_vars

\* C11: after the strobe has gone from 1 to 0 with the mask m held, the k-th
\* read (k = 1..8) returns bit k-1 of m, whatever buttons were pressed or
\* released since, and every later read, until the next falling edge,
\* returns 1.
C11_ControllerShiftsOutLatch ==
    [][(ret'.op = "pad_read" /\ host.latched >= 0) =>
          ret'.result = IF host.reads < 8
                        THEN (host.latched \div (2 ^ host.reads)) % 2
                        ELSE 1]_vars

\* the ninth read after a latch of A+Start+Right has returned 1 while the
\* buttons now held differ from the latched ones
C11_Witness ==
    /\ ret.op = "pad_read" /\ ret.result = 1
    /\ host.latched = \h89 /\ host.reads = 9
    /\ cpu.memory.controller1.state.buttons = \h02

---------------------------------------------------------------------------
(* PPU memory through the CPU bus: a machine is constructed with one of    *)
(* the cartridges and the caller writes $2006, $2007 and the mapper        *)
(* register and reads $2002 and $2007.                                     *)

VramCarts == {"nrom16", "nrom32", "gxrom"}

VramReadAddrs == {\h2002, \h2007}

VramWriteAddrs == {\h2006, \h2007, \h8000}

\* bytes written: address halves for the pattern tables, two nametables and
\* the palette aliases, CHR bank numbers, and data
VramValues == {\h00, \h01, \h02, \h10, \h14, \h18, \h1C, \h20, \h24, \h3F, \h5A}

InitVram ==
    /\ profile \in Profiles
    /\ \E cart \in VramCarts : cpu = system_new(cart)
    /\ frame = 0
    /\ host = HostIdle
    /\ ret = RetNone

NextVram ==
    \/ \E a \in VramReadAddrs : BusRead(a)
    \/ \E a \in VramWriteAddrs, d \in VramValues : BusWrite(a, d)

SpecVram == InitVram /\ [][NextVram]_vars

\* What the caller reads back at PPU address addr: it resets the address
\* latch by reading $2002, writes the address to $2006 high byte first, and
\* reads $2007; below the palette the first read only primes the read
\* buffer and the second returns the byte.
VramReadBack(mem, addr) ==
    Bind(bus_read(mem, \h2002).mem, LAMBDA m1 :
    Bind(bus_write(m1, \h2006, addr \div 256), LAMBDA m2 :
    Bind(bus_write(m2, \h2006, addr % 256), LAMBDA m3 :
    Bind(bus_read(m3, \h2007), LAMBDA r1 :
        IF addr >= \h3F00 THEN r1.v ELSE bus_read(r1.mem, \h2007).v))))

Mirroring(mem) == mem.cartridge[1].header.mirroring

\* C12: with Horizontal mirroring a byte written through $2007 after $2006
\* was set to $2000+x (x < $400) is read back at $2400+x and leaves what is
\* read at $2800+x and $2C00+x unchanged; with Vertical mirroring a byte
\* written at $2000+x is read back at $2800+x and one written at $2400+x is
\* read back at $2C00+x.
C12_NametableMirroring ==
    [][(/\ ret'.op = "write" /\ ret'.addr = \h2007
        /\ cpu.memory.ppu.vram_addr \in \h2000 .. \h27FF) =>
          LET a == cpu.memory.ppu.vram_addr
              d == ret'.value
          IN  CASE Mirroring(cpu.memory) = "Horizontal" /\ a < \h2400 ->
                     /\ VramReadBack(cpu'.memory, a + \h400) = d
                     /\ VramReadBack(cpu'.memory, a + \h800) = VramReadBack(cpu.memory, a + \h800)
                     /\ VramReadBack(cpu'.memory, a + \hC00) = VramReadBack(cpu.memory, a + \hC00)
                [] Mirroring(cpu.memory) = "Vertical" ->
                     VramReadBack(cpu'.memory, a + \h800) = d
                [] OTHER -> TRUE]_vars

\* the palette addresses that alias the four backdrop entries
PaletteAliases == {\h3F10, \h3F14, \h3F18, \h3F1C}

\* C13: after a write of d through $2007 with the PPU address at $3F10,
\* $3F14, $3F18 or $3F1C, the caller reads d back at $3F00, $3F04, $3F08 or
\* $3F0C respectively.
C13_PaletteAliasReadsBack ==
    [][(/\ ret'.op = "write" /\ ret'.addr = \h2007
        /\ cpu.memory.ppu.vram_addr \in PaletteAliases) =>
          VramReadBack(cpu'.memory, cpu.memory.ppu.vram_addr - \h10) = ret'.value]_vars

\* $5A has just been written at $3F18 and palette entry 8 holds it
C13_Witness ==
    /\ ret.op = "write" /\ ret.addr = \h2007 /\ ret.value = \h5A
    /\ cpu.memory.ppu.temp_vram_addr = \h3F18
    /\ cpu.memory.ppu.vram_addr = \h3F19
    /\ Load(cpu.memory.ppu.palette, 8) = \h5A

---------------------------------------------------------------------------
(* Rendering: the caller writes the PPU's mask, address and data registers *)
(* through the CPU bus and calls NesSystem::step, whose PPU ticks draw     *)
(* into the framebuffer.  `host` counts the writes and the steps.          *)

MaxRenderWrites == 4

MaxRenderSteps == 2

RenderImages == {"test", "nrom16"}

\* register writes the caller makes: the background is switched on and
\* off, the PPU address is set to the palette or to the pattern tables, and
\* a palette index or a byte that is none is written
RenderWrites == {<<\h2001, \h00>>, <<\h2001, \h08>>,
                 <<\h2006, \h00>>, <<\h2006, \h3F>>,
                 <<\h2007, \h21>>, <<\h2007, \h5A>>}

HostRender == [pc |-> "idle", writes |-> 0, steps |-> 0]

InitRender ==
    /\ profile \in Profiles
    /\ \E image \in RenderImages :
          cpu = IF image = "test" THEN with_prg_rom(image) ELSE system_new(image)
    /\ frame = 0
    /\ host = HostRender
    /\ ret = RetNone

\* CpuMemory::write on the bus
RenderWrite(a, d) ==
    /\ Alive /\ host.writes < MaxRenderWrites
    /\ \E m \in {bus_write(Enter(cpu.memory), a, d)} :
           /\ cpu' = [cpu EXCEPT !.memory = m]
           /\ ret' = Ret("write", a, d, 0, ~m.panicked)
    /\ host' = [host EXCEPT !.writes = @ + 1]
    /\ UNCHANGED <<frame, profile>>

\* NesSystem::step
RenderStep ==
    /\ Alive /\ host.steps < MaxRenderSteps
    /\ \E s \in {step([cpu EXCEPT !.memory = Enter(@)])} :
           /\ cpu' = s.c
           /\ ret' = StepResult("step", s)
    /\ host' = [host EXCEPT !.steps = @ + 1]
    /\ UNCHANGED <<frame, profile>>

NextRender ==
    \/ \E w \in RenderWrites : RenderWrite(w[1], w[2])
    \/ RenderStep

SpecRender == InitRender /\ [][NextRender]_vars

\* C14: the framebuffer has 256*240 entries and every entry is a palette
\* index, at most $3F.
C14_FramebufferHoldsPaletteIndices ==
    \A i \in DOMAIN cpu.memory.ppu.framebuffer :
        /\ i < 256 * 240
        /\ cpu.memory.ppu.framebuffer[i] <= \h3F

\* pattern-table addresses probed
ChrProbe == {\h0000, \h0001, \h000F, \h0FFF, \h1000, \h1FFF}

\* C16: under mapper 66, whatever has been written on the bus, the byte the
\* PPU sees at every pattern-table address a is the byte Cartridge::read_chr
\* returns for a, the cartridge's CHR byte at current bank * $2000 + a.
C16_ChrWindowFollowsBank ==
    cpu.memory.cartridge[1].header.mapper = 66 =>
        \A a \in ChrProbe :
            read_vram_direct(cpu.memory.ppu, a) = read_chr(cpu.memory.cartridge[1], a)

---------------------------------------------------------------------------
(* The CPU under direct use, as cpu/mod.rs's tests drive it: the caller    *)
(* writes an instruction into RAM, points the public `pc` field at it and  *)
(* calls Cpu6502::step.  `host` keeps the opcode placed and counts the     *)
(* steps.                                                                  *)

\* instructions the caller runs one after another
MaxOpcodeSteps == 1

\* where the caller places the instruction
CodeBase == \h0200

OpcodeImages == {"test", "nrom32"}

\* operand bytes placed after the opcode: a RAM address, a branch offset, a
\* zero-page address
Operands == { <<\h10, \h02>>, <<\hFF, \h00>> }

HostCpu == [pc |-> "idle", opcode |-> 0, steps |-> 0]

InitOpcode ==
    /\ profile \in Profiles
    /\ \E image \in OpcodeImages :
          cpu = IF image = "test" THEN with_prg_rom(image) ELSE system_new(image)
    /\ frame = 0
    /\ host = HostCpu
    /\ ret = RetNone

\* `cpu.memory.write(..)` three times and `cpu.pc = ..`
place(c, opcode, operands) ==
    Bind(bus_write(Enter(c.memory), CodeBase, opcode), LAMBDA m1 :
    Bind(bus_write(m1, CodeBase + 1, operands[1]), LAMBDA m2 :
    Bind(bus_write(m2, CodeBase + 2, operands[2]), LAMBDA m3 :
        [c EXCEPT !.memory = m3, !.pc = CodeBase])))

Place(opcode, operands, bound) ==
    /\ Alive /\ host.pc = "idle" /\ host.steps < bound
    /\ cpu' = place(cpu, opcode, operands)
    /\ host' = [host EXCEPT !.pc = "placed", !.opcode = opcode]
    /\ ret' = Ret("place", CodeBase, opcode, 0, TRUE)
    /\ UNCHANGED <<frame, profile>>

\* Cpu6502::step
CpuStep ==
    /\ Alive /\ host.pc = "placed"
    /\ \E s \in {cpu_step([cpu EXCEPT !.memory = Enter(@)])} :
           /\ cpu' = s.c
           /\ ret' = Ret("cpu_step", cpu.pc, host.opcode, IF s.r.ok THEN s.r.v ELSE 0, s.r.ok)
    /\ host' = [host EXCEPT !.pc = "idle", !.steps = @ + 1]
    /\ UNCHANGED <<frame, profile>>

NextOpcode ==
    \/ \E opcode \in Byte, operands \in Operands : Place(opcode, operands, MaxOpcodeSteps)
    \/ CpuStep

SpecOpcode == InitOpcode /\ [][NextOpcode]_vars

\* the 151 documented opcodes of the 6502
LegalOpcodes ==
    {\h00, \h01, \h05, \h06, \h08, \h09, \h0A, \h0D, \h0E, \h10, \h11, \h15,
     \h16, \h18, \h19, \h1D, \h1E, \h20, \h21, \h24, \h25, \h26, \h28, \h29,
     \h2A, \h2C, \h2D, \h2E, \h30, \h31, \h35, \h36, \h38, \h39, \h3D, \h3E,
     \h40, \h41, \h45, \h46, \h48, \h49, \h4A, \h4C, \h4D, \h4E, \h50, \h51,
     \h55, \h56, \h58, \h59, \h5D, \h5E, \h60, \h61, \h65, \h66, \h68, \h69,
     \h6A, \h6C, \h6D, \h6E, \h70, \h71, \h75, \h76, \h78, \h79, \h7D, \h7E,
     \h81, \h84, \h85, \h86, \h88, \h8A, \h8C, \h8D, \h8E, \h90, \h91, \h94,
     \h95, \h96, \h98, \h99, \h9A, \h9D, \hA0, \hA1, \hA2, \hA4, \hA5, \hA6,
     \hA8, \hA9, \hAA, \hAC, \hAD, \hAE, \hB0, \hB1, \hB4, \hB5, \hB6, \hB8,
     \hB9, \hBA, \hBC, \hBD, \hBE, \hC0, \hC1, \hC4, \hC5, \hC6, \hC8, \hC9,
     \hCA, \hCC, \hCD, \hCE, \hD0, \hD1, \hD5, \hD6, \hD8, \hD9, \hDD, \hDE,
     \hE0, \hE1, \hE4, \hE5, \hE6, \hE8, \hE9, \hEA, \hEC, \hED, \hEE, \hF0,
     \hF1, \hF5, \hF6, \hF8, \hF9, \hFD, \hFE}

\* C17: Cpu6502::step returns the invalid-opcode error exactly when the byte
\* at PC is none of the 151 legal opcodes, and each legal opcode has an
\* entry in the opcode table and an arm in execute's match.
C17_InvalidOpcodeExactlyForIllegal ==
    /\ Cardinality(LegalOpcodes) = 151
    /\ \A k \in Byte :
          /\ (OpcodeCycles[k + 1] # 0) <=> (k \in LegalOpcodes)
          /\ (ExecuteArm[k + 1][1] # "") <=> (k \in LegalOpcodes)
    /\ ret.op = "cpu_step" =>
          /\ ret.ok <=> (ret.value \in LegalOpcodes)
          /\ ret.ok => ret.result = OpcodeCycles[ret.value + 1]
                        \/ ret.result = OpcodeCycles[ret.value + 1] + 1
                        \/ ret.result = OpcodeCycles[ret.value + 1] + 2

\* the undocumented opcode $EB has been refused
C17_Witness ==
    /\ ret.op = "cpu_step" /\ ~ret.ok
    /\ ret.value = \hEB /\ ret.addr = CodeBase
    /\ host.steps = 1

---------------------------------------------------------------------------
(* Properties of the running system, continued                             *)

\* C18: when a step inside run_frame meets an invalid opcode, run_frame
\* returns the error at once and the frame counter is not incremented, the
\* failed instruction adds no CPU cycles and clocks neither PPU nor APU,
\* A, X, Y, SP and the status are unchanged, and the PC the caller then sees
\* is the address of the failing opcode.
C18_InvalidOpcodeStopsFrame ==
    [][(ret'.op = "run_frame" /\ ~ret'.ok /\ ~cpu'.memory.panicked) =>
          /\ host'.pc = "idle"
          /\ frame' = frame
          /\ cpu'.cycles = cpu.cycles
          /\ cpu'.memory.ppu = cpu.memory.ppu
          /\ cpu'.memory.apu = cpu.memory.apu
          /\ cpu'.a = cpu.a /\ cpu'.x = cpu.x /\ cpu'.y = cpu.y
          /\ cpu'.sp = cpu.sp /\ cpu'.status = cpu.status
          /\ cpu'.pc = cpu.pc]_vars

---------------------------------------------------------------------------
(* Reset: the caller steps the machine, writes on the bus and calls        *)
(* NesSystem::reset.  `host` counts the steps and writes together, and the *)
(* resets.                                                                 *)

MaxResets == 2

\* addresses written before a reset: RAM, PPUCTRL, the APU's channel enable
ResetAddrs == {\h0001, \h2000, \h4015}

HostReset == [pc |-> "idle", ops |-> 0, resets |-> 0]

InitReset ==
    /\ profile \in Profiles
    /\ \E image \in SysImages :
          cpu = IF image = "test" THEN with_prg_rom(image) ELSE system_new(image)
    /\ frame = 0
    /\ host = HostReset
    /\ ret = RetNone

\* NesSystem::reset
Reset ==
    /\ Alive /\ host.pc = "idle" /\ host.resets < MaxResets
    /\ cpu' = cpu_reset([cpu EXCEPT !.memory = Enter(@)])
    /\ frame' = 0
    /\ host' = [host EXCEPT !.resets = @ + 1]
    /\ ret' = Ret("reset", 0, 0, 0, TRUE)
    /\ UNCHANGED profile

NextReset ==
    \/ Step
    \/ \E a \in ResetAddrs, d \in BusValues : BusWrite(a, d)
    \/ Reset

SpecReset == InitReset /\ [][NextReset]_vars

\* C19: a reset sets PC to the little-endian word at $FFFC/$FFFD, SP to $FD,
\* the status to InterruptDisable|Unused, A, X and Y to 0 and the cycle
\* counter to 0 and leaves RAM unchanged, and a reset of the state it
\* produces changes no field of the CPU, the PPU or the APU.
C19_ResetIsIdempotent ==
    [][ret'.op = "reset" =>
          /\ cpu'.pc = bus_read(cpu.memory, \hFFFC).v + 256 * bus_read(cpu.memory, \hFFFD).v
          /\ cpu'.sp = \hFD
          /\ cpu'.status = BitOr(INTERRUPT, UNUSED)
          /\ cpu'.a = 0 /\ cpu'.x = 0 /\ cpu'.y = 0
          /\ cpu'.cycles = 0
          /\ cpu'.memory.ram = cpu.memory.ram
          /\ Machine(cpu_reset(cpu')) = Machine(cpu')]_vars

\* the machine that ran LDA #$42; STA $00 has been reset twice: A is clear
\* and RAM still holds $42
C19_Witness ==
    /\ ret.op = "reset" /\ host.resets = 2 /\ host.ops = 2
    /\ cpu.a = 0 /\ cpu.pc = \h8000 /\ cpu.cycles = 0
    /\ Load(cpu.memory.ram, 0) = \h42

---------------------------------------------------------------------------
(* The status register under instruction sequences: the caller places and  *)
(* steps one instruction after another, taken from those that load A,      *)
(* push, pull, interrupt, return and set or clear flags.                   *)

MaxStatusSteps == 4

\* LDA #$FF, LDA #$00, LDA #$10, PHA, PHP, PLP, BRK, RTI, SEC, CLI
StatusInstructions ==
    { <<\hA9, \hFF>>, <<\hA9, \h00>>, <<\hA9, \h10>>, <<\h48, \h00>>, <<\h08, \h00>>,
      <<\h28, \h00>>, <<\h00, \h00>>, <<\h40, \h00>>, <<\h38, \h00>>, <<\h58, \h00>> }

NextStatus ==
    \/ \E i \in StatusInstructions : Place(i[1], <<i[2], \h00>>, MaxStatusSteps)
    \/ CpuStep

SpecStatus == InitOpcode /\ [][NextStatus]_vars

\* the stack cell k places above the stack pointer sp
StackCell(c, sp, k) == Load(c.memory.ram, ram_index(\h0100 + ((sp + k) % 256)))

\* C20: the status byte PHP and BRK push is the status register with
\* Break (bit 4) and Unused (bit 5) set; after PLP and RTI the status
\* register is the byte pulled with Break cleared and Unused set; and the
\* status register always has Unused set and Break clear.
C20_StatusBreakAndUnused ==
    /\ [](BitAnd(cpu.status, UNUSED) = UNUSED /\ BitAnd(cpu.status, BREAK) = 0)
    /\ [][ret'.op = "cpu_step" =>
            /\ ret'.value = \h08 =>
                  StackCell(cpu', cpu.sp, 0) = BitOr(cpu.status, BitOr(BREAK, UNUSED))
            /\ ret'.value = \h00 =>
                  StackCell(cpu', cpu.sp, 254) = BitOr(cpu.status, BitOr(BREAK, UNUSED))
            /\ ret'.value \in {\h28, \h40} =>
                  cpu'.status = BitAnd(BitOr(StackCell(cpu, cpu.sp, 1), UNUSED), \hFF - BREAK)]_vars

\* PLP has pulled $FF, pushed by PHA, and the status is $EF
C20_Witness ==
    /\ ret.op = "cpu_step" /\ ret.value = \h28
    /\ cpu.a = \hFF
    /\ StackCell(cpu, cpu.sp, 0) = \hFF
    /\ cpu.status = \hEF

---------------------------------------------------------------------------
(* Arithmetic: the caller sets the public `a` field and the carry flag,    *)
(* places ADC or SBC with an immediate operand and steps.                  *)

MaxAluSteps == 1

\* immediate operands placed: the ends and the middle of the signed range
AluOperands == {\h00, \h01, \h7F, \h80, \hFF}

InitAlu ==
    /\ profile \in Profiles
    /\ cpu = with_prg_rom("test")
    /\ frame = 0
    /\ host = HostCpu
    /\ ret = RetNone

\* `cpu.a = a; cpu.set_flag(StatusFlags::CARRY, carry)`
SetRegs(a, carry) ==
    /\ Alive /\ host.pc = "idle" /\ host.steps < MaxAluSteps
    /\ cpu' = set_flag([cpu EXCEPT !.a = a], CARRY, carry)
    /\ ret' = Ret("set_regs", 0, a, 0, TRUE)
    /\ UNCHANGED <<frame, host, profile>>

NextAlu ==
    \/ \E a \in Byte, carry \in BOOLEAN : SetRegs(a, carry)
    \/ \E opcode \in {\h69, \hE9}, m \in AluOperands : Place(opcode, <<m, \h00>>, MaxAluSteps)
    \/ CpuStep

SpecAlu == InitAlu /\ [][NextAlu]_vars

\* a byte as a signed number
Signed(b) == IF b >= \h80 THEN b - \h100 ELSE b

\* c is what ADC of m makes of the CPU c0: the sum, and the four flags
AdcLaw(c0, m, c) ==
    LET cin == IF get_flag(c0, CARRY) THEN 1 ELSE 0
        sum == c0.a + m + cin
    IN  /\ c.a = sum % 256
        /\ get_flag(c, CARRY) <=> (sum > 255)
        /\ get_flag(c, OVERFLOW) <=> (Signed(c0.a) + Signed(m) + cin \notin -128 .. 127)
        /\ get_flag(c, OVERFLOW) <=>
              (BitAnd(BitAnd(BitXor(c0.a, c.a), BitXor(m, c.a)), \h80) # 0)
        /\ get_flag(c, ZERO) <=> (c.a = 0)
        /\ get_flag(c, NEGATIVE) <=> (c.a >= \h80)

\* C21: for the A and carry the caller has set and every byte M, ADC leaves
\* A = (A+M+C) mod 256 with Carry iff A+M+C > 255, Overflow iff the signed
\* sum is outside -128..127, Zero iff the result is 0 and Negative iff its
\* bit 7 is set, and SBC of M is ADC of M's complement; and a step of
\* ADC #M or SBC #M does this to the CPU.
C21_AdcSbcArithmetic ==
    /\ [](ret.op = "set_regs" =>
          \A m \in Byte :
            /\ Bind(adc(cpu, m), LAMBDA c : AdcLaw(cpu, m, c))
            /\ Bind(sbc(cpu, m), LAMBDA s :
               Bind(adc(cpu, BitXor(m, \hFF)), LAMBDA c :
                   s.a = c.a /\ s.status = c.status)))
    /\ [][(ret'.op = "cpu_step" /\ ret'.ok) =>
            LET m == Load(cpu.memory.ram, CodeBase + 1)
            IN  /\ ret'.value = \h69 => AdcLaw(cpu, m, cpu')
                /\ ret'.value = \hE9 => AdcLaw(cpu, BitXor(m, \hFF), cpu')
                /\ ret'.result = 2 /\ cpu'.pc = CodeBase + 2]_vars

\* ADC #$01 with A = $7F and Carry clear has set Overflow and Negative and
\* left Carry clear
C21_Witness ==
    /\ ret.op = "cpu_step" /\ ret.value = \h69
    /\ Load(cpu.memory.ram, CodeBase + 1) = \h01
    /\ cpu.a = \h80
    /\ get_flag(cpu, OVERFLOW) /\ get_flag(cpu, NEGATIVE)
    /\ ~get_flag(cpu, CARRY) /\ ~get_flag(cpu, ZERO)

---------------------------------------------------------------------------
(* Branches: the caller sets or clears the four tested flags, places a     *)
(* branch with any offset at one of several addresses and steps.           *)

MaxBranchSteps == 1

\* where the branch is placed: the bottom of RAM, from where a backward
\* branch wraps below $0000, and the end of a page, from where a forward
\* branch crosses into the next
BranchBases == {\h0000, \h02FD}

\* BPL, BMI, BVC, BVS, BCC, BCS, BNE, BEQ
BranchOpcodes == {\h10, \h30, \h50, \h70, \h90, \hB0, \hD0, \hF0}

\* `cpu.memory.write(..)` twice and `cpu.pc = ..`
place_at(c, base, opcode, operand) ==
    Bind(bus_write(Enter(c.memory), base, opcode), LAMBDA m1 :
    Bind(bus_write(m1, base + 1, operand), LAMBDA m2 :
        [c EXCEPT !.memory = m2, !.pc = base]))

PlaceAt(base, opcode, operand, bound) ==
    /\ Alive /\ host.pc = "idle" /\ host.steps < bound
    /\ cpu' = place_at(cpu, base, opcode, operand)
    /\ host' = [host EXCEPT !.pc = "placed", !.opcode = opcode]
    /\ ret' = Ret("place", base, opcode, 0, TRUE)
    /\ UNCHANGED <<frame, profile>>

\* `cpu.set_flag(..)` for Carry, Zero, Overflow and Negative
SetFlags(on) ==
    /\ Alive /\ host.pc = "idle" /\ host.steps < MaxBranchSteps
    /\ cpu' = set_flag(set_flag(set_flag(set_flag(cpu, CARRY, on), ZERO, on),
                                OVERFLOW, on), NEGATIVE, on)
    /\ ret' = Ret("set_flags", 0, 0, 0, TRUE)
    /\ UNCHANGED <<frame, host, profile>>

NextBranch ==
    \/ \E on \in BOOLEAN : SetFlags(on)
    \/ \E base \in BranchBases, opcode \in BranchOpcodes, offset \in Byte :
           PlaceAt(base, opcode, offset, MaxBranchSteps)
    \/ CpuStep

SpecBranch == InitAlu /\ [][NextBranch]_vars

\* the condition a branch opcode tests, on a status byte
BranchTaken(opcode, status) ==
    CASE opcode = \h10 -> BitAnd(status, NEGATIVE) = 0
      [] opcode = \h30 -> BitAnd(status, NEGATIVE) # 0
      [] opcode = \h50 -> BitAnd(status, OVERFLOW) = 0
      [] opcode = \h70 -> BitAnd(status, OVERFLOW) # 0
      [] opcode = \h90 -> BitAnd(status, CARRY) = 0
      [] opcode = \hB0 -> BitAnd(status, CARRY) # 0
      [] opcode = \hD0 -> BitAnd(status, ZERO) = 0
      [] opcode = \hF0 -> BitAnd(status, ZERO) # 0

\* C22: a step of a branch whose condition is false costs 2 cycles and
\* leaves PC just past the operand; one whose condition is true sets PC to
\* (PC past the operand + signed offset) mod 65536 and costs 3 cycles if
\* that is in the page of the PC past the operand, 4 otherwise.
C22_BranchCycles ==
    [][(ret'.op = "cpu_step" /\ ret'.value \in BranchOpcodes) =>
          LET past == (cpu.pc + 2) % 65536
              offset == Load(cpu.memory.ram, ram_index(cpu.pc + 1))
              target == (past + Signed(offset) + 65536) % 65536
          IN  /\ ret'.ok
              /\ cpu'.status = cpu.status
              /\ IF BranchTaken(ret'.value, cpu.status)
                 THEN /\ cpu'.pc = target
                      /\ ret'.result = IF target \div 256 = past \div 256 THEN 3 ELSE 4
                 ELSE /\ cpu'.pc = past
                      /\ ret'.result = 2]_vars

\* BNE -128 placed at $0000 has been taken down across $0000 to $FF82 in 4
\* cycles
C22_Witness ==
    /\ ret.op = "cpu_step" /\ ret.value = \hD0 /\ ret.addr = \h0000
    /\ Load(cpu.memory.ram, 1) = \h80
    /\ cpu.pc = \hFF82
    /\ ret.result = 4


\* ---------------------------------------------------------------------------
\* JMP (indirect): the caller pokes bytes into RAM, places JMP ($ptr) at
\* CodeBase and steps the CPU once.
\* ---------------------------------------------------------------------------
MaxJmpSteps == 1
MaxPokes == 2

\* pointers at the end of a page, in the middle of one, at the start of one,
\* one byte before the end, and at the end of RAM (the next byte is the
\* mirror of $0000)
JmpPointers == {\h02FF, \h03FF, \h07FF, \h0300, \h0310, \h03FE}
PokeAddrs == {\h0000, \h0300, \h0301, \h0311, \h03FF, \h0400, \h0700, \h07FF}
PokeValues == {\h12, \h34, \h80}

HostJmp == [pc |-> "idle", opcode |-> 0, steps |-> 0, pokes |-> 0]

InitJmp ==
    /\ profile \in Profiles
    /\ cpu = with_prg_rom("test")
    /\ frame = 0
    /\ host = HostJmp
    /\ ret = RetNone

\* memory.write(addr, value) before the instruction is placed
Poke(addr, value) ==
    /\ Alive /\ host.pc = "idle" /\ host.steps = 0 /\ host.pokes < MaxPokes
    /\ cpu' = [cpu EXCEPT !.memory = bus_write(Enter(@), addr, value)]
    /\ host' = [host EXCEPT !.pokes = @ + 1]
    /\ ret' = Ret("poke", addr, value, 0, TRUE)
    /\ UNCHANGED <<frame, profile>>

NextJmp ==
    \/ \E addr \in PokeAddrs, value \in PokeValues : Poke(addr, value)
    \/ \E ptr \in JmpPointers : Place(\h6C, <<ptr % 256, ptr \div 256>>, MaxJmpSteps)
    \/ CpuStep

SpecJmp == InitJmp /\ [][NextJmp]_vars

\* the byte of RAM the CPU sees at addr (addr below $2000)
RamAt(c, addr) == Load(c.memory.ram, ram_index(addr))

\* C23: JMP ($xxFF) takes the low byte of its target from $xxFF and the high
\* byte from $xx00 of the same page; for any other pointer the high byte comes
\* from pointer + 1. The instruction costs 5 cycles and changes no RAM.
C23_JmpIndirectPageWrap ==
    [][(ret'.op = "cpu_step" /\ ret'.value = \h6C) =>
          LET ptr == RamAt(cpu, CodeBase + 2) * 256 + RamAt(cpu, CodeBase + 1)
              lo == RamAt(cpu, ptr)
              hi == IF ptr % 256 = \hFF
                    THEN RamAt(cpu, (ptr \div 256) * 256)
                    ELSE RamAt(cpu, ptr + 1)
          IN  /\ ret'.ok
              /\ ret'.result = 5
              /\ cpu'.pc = hi * 256 + lo
              /\ cpu'.memory.ram = cpu.memory.ram]_vars

\* JMP ($03FF) with $34 at $03FF, $12 at $0300 and nothing at $0400 went to
\* $1234
C23_Witness ==
    /\ ret.op = "cpu_step" /\ ret.value = \h6C /\ ret.ok
    /\ RamAt(cpu, CodeBase + 1) = \hFF /\ RamAt(cpu, CodeBase + 2) = \h03
    /\ RamAt(cpu, \h03FF) = \h34 /\ RamAt(cpu, \h0300) = \h12
    /\ RamAt(cpu, \h0400) = 0
    /\ cpu.pc = \h1234


\* ---------------------------------------------------------------------------
\* JSR / RTS: the caller sets SP, writes JSR target at p and RTS at the
\* target, points PC at p and steps the CPU twice.
\* ---------------------------------------------------------------------------
MaxJsrCalls == 1

\* p: the bottom of RAM, inside the stack page, the end of RAM, the end of
\* RAM's last mirror
JsrBases == {\h0000, \h01FB, \h07FD, \h1FFD}
\* targets: zero page, inside the stack page, mid-RAM, a mirror
JsrTargets == {\h0010, \h0180, \h0300, \h17FF}

HostJsr == [pc |-> "idle", opcode |-> 0, steps |-> 0, p |-> 0, sp |-> 0]

InitJsr ==
    /\ profile \in Profiles
    /\ cpu = with_prg_rom("test")
    /\ frame = 0
    /\ host = HostJsr
    /\ ret = RetNone

\* cpu.sp = sp
SetSp(sp) ==
    /\ Alive /\ host.pc = "idle" /\ host.steps = 0
    /\ cpu' = [cpu EXCEPT !.sp = sp]
    /\ ret' = Ret("set_sp", 0, sp, 0, TRUE)
    /\ UNCHANGED <<frame, host, profile>>

place_jsr(c, p, target) ==
    Bind(bus_write(Enter(c.memory), p, \h20), LAMBDA m1 :
    Bind(bus_write(m1, Wrap16(p + 1), target % 256), LAMBDA m2 :
    Bind(bus_write(m2, Wrap16(p + 2), target \div 256), LAMBDA m3 :
    Bind(bus_write(m3, target, \h60), LAMBDA m4 :
        [c EXCEPT !.memory = m4, !.pc = p]))))

PlaceJsr(p, target) ==
    /\ Alive /\ host.pc = "idle" /\ host.steps < MaxJsrCalls
    /\ cpu' = place_jsr(cpu, p, target)
    /\ host' = [host EXCEPT !.pc = "placed", !.opcode = \h20, !.p = p, !.sp = cpu.sp]
    /\ ret' = Ret("place", p, \h20, 0, TRUE)
    /\ UNCHANGED <<frame, profile>>

\* Cpu6502::step, twice: ret.value is the opcode the step found at PC
JsrStep ==
    /\ Alive /\ host.pc \in {"placed", "called"}
    /\ \E s \in {cpu_step([cpu EXCEPT !.memory = Enter(@)])} :
           /\ cpu' = s.c
           /\ ret' = Ret("cpu_step", cpu.pc, Load(cpu.memory.ram, ram_index(cpu.pc)),
                         IF s.r.ok THEN s.r.v ELSE 0, s.r.ok)
    /\ host' = IF host.pc = "placed"
               THEN [host EXCEPT !.pc = "called"]
               ELSE [host EXCEPT !.pc = "idle", !.steps = @ + 1]
    /\ UNCHANGED <<frame, profile>>

NextJsr ==
    \/ \E sp \in Byte : SetSp(sp)
    \/ \E p \in JsrBases, target \in JsrTargets : PlaceJsr(p, target)
    \/ JsrStep

SpecJsr == InitJsr /\ [][NextJsr]_vars

\* C24: a JSR at p goes to its target with SP lowered by two (wrapping within
\* page $01), and the RTS executed there returns to p + 3 with SP back at its
\* value before the JSR, for every starting SP; both cost 6 cycles.
C24_JsrRtsRoundTrip ==
    [][/\ (host.pc = "placed" /\ ret'.op = "cpu_step" /\ ret'.value = \h20) =>
            /\ ret'.ok /\ ret'.result = 6
            /\ cpu'.pc = Load(cpu.memory.ram, ram_index(host.p + 2)) * 256
                         + Load(cpu.memory.ram, ram_index(host.p + 1))
            /\ cpu'.sp = (host.sp + 254) % 256
       /\ (host.pc = "called" /\ ret.value = \h20 /\ ret'.op = "cpu_step"
           /\ ret'.value = \h60) =>
            /\ ret'.ok /\ ret'.result = 6
            /\ cpu'.pc = (host.p + 3) % 65536
            /\ cpu'.sp = host.sp]_vars

\* JSR at $0000 with SP = $00: the pushes went to $0100 and $01FF, and the RTS
\* at $0300 came back to $0003 with SP = $00
C24_Witness ==
    /\ host.pc = "idle" /\ host.steps = 1 /\ host.p = \h0000 /\ host.sp = \h00
    /\ ret.op = "cpu_step" /\ ret.value = \h60 /\ ret.addr = \h0300
    /\ Load(cpu.memory.ram, \h0100) = \h00 /\ Load(cpu.memory.ram, \h01FF) = \h02
    /\ cpu.pc = \h0003 /\ cpu.sp = \h00


\* ---------------------------------------------------------------------------
\* The noise channel's shift register: timer clocks interleaved with writes
\* of $400E that select the mode.
\* ---------------------------------------------------------------------------
\* $400E values: mode 0 and mode 1, both with the shortest period
NoiseModeWrites == {\h00, \h80}

InitNoise ==
    /\ profile \in Profiles
    /\ cpu = with_prg_rom("test")
    /\ frame = 0
    /\ host = HostIdle
    /\ ret = RetNone

\* NoiseChannel::clock_timer
NoiseClock ==
    /\ cpu' = [cpu EXCEPT !.memory.apu.noise = noise_clock_timer(@)]
    /\ UNCHANGED <<frame, host, ret, profile>>

\* Apu::write_register($400E, value)
NoiseWrite(value) ==
    /\ cpu' = [cpu EXCEPT !.memory.apu = apu_write_register(@, \h400E, value)]
    /\ UNCHANGED <<frame, host, ret, profile>>

NextNoise ==
    \/ NoiseClock
    \/ \E value \in NoiseModeWrites : NoiseWrite(value)

SpecNoise == InitNoise /\ [][NextNoise]_vars

\* C25: the noise shift register is never zero and never has a bit above
\* bit 14, whatever the sequence of timer clocks and mode writes.
C25_NoiseShiftRegisterRange ==
    cpu.memory.apu.noise.shift_register \in 1 .. \h7FFF

\* the register holds $4000: the shift of the power-on value 1, whose
\* feedback bit kept it from becoming zero; the channel is in mode 1
C25_Witness ==
    /\ cpu.memory.apu.noise.shift_register = \h4000
    /\ cpu.memory.apu.noise.mode
    /\ cpu.memory.apu.noise.timer = 4


\* ---------------------------------------------------------------------------
\* APU length counters: the caller writes $4015, the four length-load
\* registers, $4000 and $4017 through the bus, reads $4015, and clocks the APU.
\* ---------------------------------------------------------------------------
MaxApuOps == 5

\* $4015: all off, all on, pulse 1 + triangle, pulse 2 + noise; length loads
\* of 2 and of 4 for each channel; $4000 with the halt bit; $4017 in 5-step
\* mode (which clocks the length counters at once) and in 4-step mode
ApuWrites ==
    {<<\h4015, \h00>>, <<\h4015, \h0F>>, <<\h4015, \h05>>, <<\h4015, \h0A>>,
     <<\h4003, \h18>>, <<\h4007, \h18>>, <<\h400B, \h18>>, <<\h400F, \h18>>,
     <<\h4003, \h28>>, <<\h4007, \h28>>, <<\h400B, \h28>>, <<\h400F, \h28>>,
     <<\h4000, \h20>>, <<\h4017, \h80>>, <<\h4017, \h00>>}

InitApu ==
    /\ profile \in Profiles
    /\ cpu = with_prg_rom("test")
    /\ frame = 0
    /\ host = HostIdle
    /\ ret = RetNone

\* CpuMemory::write of an APU register
ApuWrite(a, d) ==
    /\ Alive /\ host.ops < MaxApuOps
    /\ cpu' = [cpu EXCEPT !.memory = bus_write(Enter(@), a, d)]
    /\ ret' = Ret("write", a, d, 0, TRUE)
    /\ host' = [host EXCEPT !.ops = @ + 1]
    /\ UNCHANGED <<frame, profile>>

\* CpuMemory::read of $4015
ApuStatusRead ==
    /\ Alive
    /\ \E r \in {bus_read(Enter(cpu.memory), \h4015)} :
           /\ cpu' = [cpu EXCEPT !.memory = r.mem]
           /\ ret' = Ret("read", \h4015, 0, r.v, TRUE)
    /\ UNCHANGED <<frame, host, profile>>

\* Apu::clock
ApuClock ==
    /\ Alive /\ host.ops < MaxApuOps
    /\ cpu' = [cpu EXCEPT !.memory.apu = apu_clock(@)]
    /\ ret' = Ret("apu_clock", 0, 0, 0, TRUE)
    /\ host' = [host EXCEPT !.ops = @ + 1]
    /\ UNCHANGED <<frame, profile>>

NextApu ==
    \/ \E w \in ApuWrites : ApuWrite(w[1], w[2])
    \/ ApuStatusRead
    \/ ApuClock

SpecApu == InitApu /\ [][NextApu]_vars

\* the four channels with a length counter: name, $4015 bit, length-load register
LengthChannels ==
    {<<"pulse1", \h01, \h4003>>, <<"pulse2", \h02, \h4007>>,
     <<"triangle", \h04, \h400B>>, <<"noise", \h08, \h400F>>}

\* C26: for pulse 1, pulse 2, triangle and noise a non-zero length counter
\* implies the channel is enabled: a $4015 write with the channel's bit clear
\* zeroes its length counter, a length load while the channel is disabled
\* leaves it at 0, and a $4015 read reports 0 for every disabled channel.
C26_LengthCounterNeedsEnable ==
    /\ [](\A ch \in LengthChannels :
            LET channel == cpu.memory.apu[ch[1]]
            IN  /\ channel.length_counter > 0 => channel.enabled
                /\ (ret.op = "read" /\ ~channel.enabled) => BitAnd(ret.result, ch[2]) = 0
                /\ ret.op = "read" =>
                       (BitAnd(ret.result, ch[2]) # 0 <=> channel.length_counter > 0))
    /\ [][\A ch \in LengthChannels :
            /\ (ret'.op = "write" /\ ret'.addr = \h4015 /\ BitAnd(ret'.value, ch[2]) = 0) =>
                   /\ cpu'.memory.apu[ch[1]].length_counter = 0
                   /\ ~cpu'.memory.apu[ch[1]].enabled
            /\ (ret'.op = "write" /\ ret'.addr = ch[3] /\ ~cpu.memory.apu[ch[1]].enabled) =>
                   /\ cpu'.memory.apu[ch[1]].length_counter = 0
                   /\ ~cpu'.memory.apu[ch[1]].enabled]_vars

\* pulse 1 was just sent a length load while disabled and stays silent, while
\* pulse 2 and noise, still enabled, keep the lengths loaded earlier
C26_Witness ==
    /\ ret.op = "write" /\ ret.addr = \h4003
    /\ ~cpu.memory.apu.pulse1.enabled
    /\ cpu.memory.apu.pulse1.length_counter = 0
    /\ cpu.memory.apu.pulse1.envelope_start
    /\ cpu.memory.apu.pulse2.length_counter = 2
    /\ cpu.memory.apu.noise.length_counter = 4


\* the byte the PPU holds at PPU address addr, in the cell write_vram uses
CellAt(ppu, addr) ==
    LET a == BitAnd(addr, \h3FFF)
        p0 == BitAnd(a - \h3F00, \h1F)
    IN  IF a >= \h3F00
        THEN Load(ppu.palette, IF p0 >= \h10 /\ p0 % 4 = 0 THEN p0 - \h10 ELSE p0)
        ELSE read_vram_direct(ppu, a)

\* the step PPUCTRL bit 2 selects
VramStep(ppu) == IF contains(ppu.ctrl, VRAM_INCREMENT) THEN 32 ELSE 1

\* C27: a bus write of d to $2007 stores d at the address v held before the
\* write, advances v by exactly one increment, and leaves the read buffer
\* unchanged.
C27_PpudataWriteStoresAtV ==
    [][(ret'.op = "write" /\ ret'.addr = \h2007 /\ ret'.ok) =>
          LET old == cpu.memory.ppu
              new == cpu'.memory.ppu
          IN  /\ CellAt(new, old.vram_addr) = ret'.value
              /\ new.vram_addr = (old.vram_addr + VramStep(old)) % 65536
              /\ new.read_buffer = old.read_buffer]_vars


\* C28: every bus read of $2007 advances v by one increment, also when v
\* points into palette RAM; a read below the palette returns the old read
\* buffer and loads the buffer with the byte at v, and a palette read returns
\* the palette byte at once.
C28_PpudataReadAdvancesV ==
    [][(ret'.op = "read" /\ ret'.addr = \h2007 /\ ret'.ok) =>
          LET old == cpu.memory.ppu
              new == cpu'.memory.ppu
              v == BitAnd(old.vram_addr, \h3FFF)
          IN  /\ new.vram_addr % \h4000 = (v + VramStep(old)) % \h4000
              /\ IF v >= \h3F00
                 THEN ret'.result = read_vram_direct(old, v)
                 ELSE /\ ret'.result = old.read_buffer
                      /\ new.read_buffer = read_vram_direct(old, v)]_vars


\* ---------------------------------------------------------------------------
\* The PPU's write latch: the caller writes $2000, $2005, $2006 and $2007
\* and reads $2002 and $2007 through the bus. `host.writes` is the caller's
\* own count, modulo 2, of its $2005/$2006 writes since it last read $2002.
\* ---------------------------------------------------------------------------
MaxLatchOps == 5

\* scroll bytes (the second $2005 write of $FF sets bit 14 of t), address
\* bytes ($7F has bits above the six that are kept), a nametable select and a
\* data byte
LatchWrites ==
    {<<\h2005, \h00>>, <<\h2005, \hFF>>,
     <<\h2006, \h00>>, <<\h2006, \h21>>, <<\h2006, \h7F>>, <<\h2006, \hFF>>,
     <<\h2000, \h03>>, <<\h2007, \h5A>>}
LatchReads == {\h2002, \h2007}

HostLatch == [pc |-> "idle", ops |-> 0, writes |-> 0, status_read |-> FALSE]

InitLatch ==
    /\ profile \in Profiles
    /\ cpu = with_prg_rom("test")
    /\ frame = 0
    /\ host = HostLatch
    /\ ret = RetNone

LatchWrite(a, d) ==
    /\ Alive /\ host.ops < MaxLatchOps
    /\ cpu' = [cpu EXCEPT !.memory = bus_write(Enter(@), a, d)]
    /\ ret' = Ret("write", a, d, 0, TRUE)
    /\ host' = [host EXCEPT !.ops = @ + 1,
                            !.writes = IF a \in {\h2005, \h2006} THEN 1 - @ ELSE @]
    /\ UNCHANGED <<frame, profile>>

LatchRead(a) ==
    /\ Alive /\ host.ops < MaxLatchOps
    /\ \E r \in {bus_read(Enter(cpu.memory), a)} :
           /\ cpu' = [cpu EXCEPT !.memory = r.mem]
           /\ ret' = Ret("read", a, 0, r.v, TRUE)
    /\ host' = [host EXCEPT !.ops = @ + 1,
                            !.writes = IF a = \h2002 THEN 0 ELSE @,
                            !.status_read = @ \/ a = \h2002]
    /\ UNCHANGED <<frame, profile>>

NextLatch ==
    \/ \E w \in LatchWrites : LatchWrite(w[1], w[2])
    \/ \E a \in LatchReads : LatchRead(a)

SpecLatch == InitLatch /\ [][NextLatch]_vars

\* C29: the write latch is one bit shared by $2005 and $2006; it toggles on
\* every write to either and a read of $2002 clears it. With the latch
\* clear a $2006 write sets bits 8-13 of t from the value, clears bit 14 and
\* leaves v alone; with the latch set a $2006 write sets the low byte of t
\* and copies t into v.
C29_WriteLatchSharedToggle ==
    /\ [](cpu.memory.ppu.write_latch <=> host.writes = 1)
    /\ [][(ret'.op = "write" /\ ret'.addr = \h2006) =>
            LET old == cpu.memory.ppu
                new == cpu'.memory.ppu
                d == ret'.value
            IN  IF host.writes = 0
                THEN /\ new.temp_vram_addr = (d % 64) * 256 + (old.temp_vram_addr % 256)
                     /\ new.temp_vram_addr < \h4000
                     /\ new.vram_addr = old.vram_addr
                ELSE /\ new.temp_vram_addr = (old.temp_vram_addr \div 256) * 256 + d
                     /\ new.vram_addr = new.temp_vram_addr]_vars

\* after a STATUS read and the two $2005 writes of $FF, $2006 <- $7F was taken
\* as the high byte (kept as $3F) and $2006 <- $00 as the low byte: v = $3F00
C29_Witness ==
    /\ host.status_read /\ host.ops = 5 /\ host.writes = 0
    /\ ret.op = "write" /\ ret.addr = \h2006 /\ ret.value = \h00
    /\ cpu.memory.ppu.fine_x = 7
    /\ cpu.memory.ppu.vram_addr = \h3F00
    /\ ~cpu.memory.ppu.write_latch


\* C30: $3F10, $3F14, $3F18 and $3F1C read as $3F00, $3F04, $3F08 and $3F0C:
\* after any palette writes the caller reads the same byte through $2007 at
\* $3F10+4k as at $3F00+4k, and so does the renderer.
C30_PaletteAliasReads ==
    \A a \in PaletteAliases :
        /\ VramReadBack(cpu.memory, a) = VramReadBack(cpu.memory, a - \h10)
        /\ read_vram_direct(cpu.memory.ppu, a) = read_vram_direct(cpu.memory.ppu, a - \h10)


\* C31: with a cartridge whose header declares CHR-ROM banks, a bus write to
\* $2007 with the PPU address in the pattern tables leaves the pattern bytes
\* the PPU sees unchanged.
C31_ChrRomNotWritable ==
    [][(/\ ret'.op = "write" /\ ret'.addr = \h2007 /\ ret'.ok
        /\ cpu.memory.cartridge # << >>
        /\ cpu.memory.cartridge[1].header.chr_rom_banks >= 1
        /\ BitAnd(cpu.memory.ppu.vram_addr, \h3FFF) <= \h1FFF) =>
          \A a \in {0, 1, 2, \h10, \h11, \h1FFF} :
              read_vram_direct(cpu'.memory.ppu, a) = read_vram_direct(cpu.memory.ppu, a)]_vars


\* ---------------------------------------------------------------------------
\* Sprite priority: the caller sets up sprite 0, three palette entries and
\* the mask with Ppu::write_register, then ticks the PPU along the first dots
\* of scanline 0. The cartridge is nrom32, whose tile 0 has pattern values
\* 0 0 2 2 2 0 3 3 in its first row; the nametable is blank, so the background
\* repeats tile 0, and sprites 1..63 lie at (0, 0) with tile 0 in front.
\* ---------------------------------------------------------------------------
MaxSpriteDots == 12

\* sprite 0's attribute byte: in front of, or behind, the background
SpriteAttrs == {\h00, \h20}
\* the backdrop colour $3F00 and the colour of background pattern value 2
BackdropColours == {\h00, \h01}
BackgroundColours == {\h02, \h04, \h05}
SpriteColour == \h16
SpriteX == \h02

HostSprite == [pc |-> "idle", ops |-> 0]

InitSprite ==
    /\ profile \in Profiles
    /\ cpu = system_new("nrom32")
    /\ frame = 0
    /\ host = HostSprite
    /\ ret = RetNone

\* Ppu::write_register for each <<address, value>> of writes, in order
RECURSIVE write_registers(_, _, _)
write_registers(ppu, writes, i) ==
    IF i > Len(writes) THEN ppu
    ELSE write_registers(write_register(ppu, writes[i][1], writes[i][2]), writes, i + 1)

SpriteWrites(attr, backdrop, colour) ==
    << <<\h2003, \h00>>, <<\h2004, \h00>>, <<\h2004, \h00>>, <<\h2004, attr>>,
       <<\h2004, SpriteX>>,
       <<\h2006, \h3F>>, <<\h2006, \h00>>, <<\h2007, backdrop>>,
       <<\h2006, \h3F>>, <<\h2006, \h02>>, <<\h2007, colour>>,
       <<\h2006, \h3F>>, <<\h2006, \h12>>, <<\h2007, SpriteColour>>,
       <<\h2006, \h00>>, <<\h2006, \h00>>,
       <<\h2001, \h18>> >>

SpriteSetup(attr, backdrop, colour) ==
    /\ host.pc = "idle"
    /\ cpu' = [cpu EXCEPT !.memory.ppu =
                   write_registers(@, SpriteWrites(attr, backdrop, colour), 1)]
    /\ host' = [host EXCEPT !.pc = "ready"]
    /\ ret' = Ret("setup", attr, colour, backdrop, TRUE)
    /\ UNCHANGED <<frame, profile>>

\* Ppu::tick
SpriteTick ==
    /\ host.pc = "ready" /\ cpu.memory.ppu.cycle < MaxSpriteDots
    /\ cpu' = [cpu EXCEPT !.memory.ppu = tick(@)]
    /\ host' = [host EXCEPT !.ops = @ + 1]
    /\ ret' = Ret("tick", 0, 0, 0, TRUE)
    /\ UNCHANGED <<frame, profile>>

NextSprite ==
    \/ \E attr \in SpriteAttrs, backdrop \in BackdropColours, colour \in BackgroundColours :
           SpriteSetup(attr, backdrop, colour)
    \/ SpriteTick

SpecSprite == InitSprite /\ [][NextSprite]_vars

\* the background's 2-bit pattern value at screen position (x, y)
background_pattern_value(ppu, x, y) ==
    LET t == ppu.temp_vram_addr
        scroll_x == x + ppu.fine_x + BitAnd(t, \h001F) * 8
        scroll_y == y + (BitAnd(t, \h7000) \div \h1000) + (BitAnd(t, \h03E0) \div 32) * 8
        tile_x == (scroll_x \div 8) % 32
        tile_y == (scroll_y \div 8) % 30
        nametable_base == BitOr(\h2000, (BitAnd(t, \h0C00) \div \h400) * \h400)
        tile_index == read_vram_direct(ppu, nametable_base + (tile_y * 32 + tile_x))
        tile_addr == (IF contains(ppu.ctrl, BG_PATTERN) THEN \h1000 ELSE \h0000)
                     + tile_index * 16
        low_byte == ChrGetOr0(ppu.chr_rom, tile_addr + (scroll_y % 8))
        high_byte == ChrGetOr0(ppu.chr_rom, tile_addr + 8 + (scroll_y % 8))
        bit_pos == 7 - (scroll_x % 8)
    IN  ((high_byte \div (2 ^ bit_pos)) % 2) * 2 + ((low_byte \div (2 ^ bit_pos)) % 2)

\* C32: with background and sprites shown, where the first opaque sprite
\* pixel overlaps the dot the output is the sprite colour if the sprite's
\* attribute bit 5 is 0; if it is 1 the sprite colour is output only where
\* the background's pattern value is 0, and the background colour otherwise,
\* whatever the colour bytes in palette RAM.
C32_SpritePriority ==
    [][(/\ ret'.op = "tick"
        /\ cpu.memory.ppu.scanline < 240 /\ cpu.memory.ppu.cycle \in 1 .. 256
        /\ contains(cpu.memory.ppu.mask, SHOW_BG)
        /\ contains(cpu.memory.ppu.mask, SHOW_SPRITES)) =>
          LET old == cpu.memory.ppu
              x == old.cycle - 1
              y == old.scanline
              sprite == get_sprite_pixel(old, x, y)
              output == Load(cpu'.memory.ppu.framebuffer, y * 256 + x)
          IN  sprite[2] =>
                 IF sprite[3] \/ background_pattern_value(old, x, y) = 0
                 THEN output = sprite[1]
                 ELSE output = get_background_pixel(old, x, y)]_vars


\* C33: under mapper 66 a CPU write of w to $8000-$FFFF sets the PRG bank to
\* bits 4-5 of w and the CHR bank to bits 0-1 of w, after which $8000+o reads
\* PRG[bank * $8000 + o]; a CPU write to cartridge space below $8000 leaves
\* both bank registers unchanged.
C33_BankRegisterAddressRange ==
    [][(/\ ret'.op = "write" /\ ret'.addr >= \h4020
        /\ cpu.memory.cartridge # << >>
        /\ cpu.memory.cartridge[1].header.mapper = 66) =>
          LET old == cpu.memory.cartridge[1]
              new == cpu'.memory.cartridge[1]
              w == ret'.value
          IN  IF ret'.addr >= \h8000
              THEN /\ new.mapper_state.prg_bank = (w \div 16) % 4
                   /\ new.mapper_state.chr_bank = w % 4
                   /\ \A o \in {\h0000, \h0001, \h7FFF} :
                        read_prg(new, \h8000 + o).v =
                            PrgByte(new.image, new.mapper_state.prg_bank * \h8000 + o)
              ELSE new.mapper_state = old.mapper_state]_vars


\* ---------------------------------------------------------------------------
\* The APU frame sequencer: the caller enables the channels and loads their
\* length counters, then clocks the APU, and writes $4017 just before or just
\* after a frame-counter step.
\* ---------------------------------------------------------------------------
\* Apu::clock steps the frame counter on the cycles that are multiples of this
FRAME_COUNTER_PERIOD == 7457

\* five steps, the step that starts the sequence again, and its result
MaxApuCycles == 37286
MaxFrameWrites == 1
\* the caller writes $4017 only this close after a multiple of the period
MaxWriteOffset == 1

\* $4017: 4-step mode, 5-step mode
FrameWrites == {\h00, \h80}

\* all four channels on; envelopes with volume 1 (pulse 1 looping); length
\* counters loaded with 254
FrameSetupWrites ==
    << <<\h4015, \h0F>>, <<\h4000, \h21>>, <<\h4004, \h01>>, <<\h400C, \h01>>,
       <<\h4003, \h08>>, <<\h4007, \h08>>, <<\h400B, \h08>>, <<\h400F, \h08>> >>

RECURSIVE bus_writes(_, _, _)
bus_writes(mem, writes, i) ==
    IF i > Len(writes) THEN mem
    ELSE bus_writes(bus_write(mem, writes[i][1], writes[i][2]), writes, i + 1)

HostFrame == [pc |-> "idle", ops |-> 0]

InitFrame ==
    /\ profile \in Profiles
    /\ cpu = with_prg_rom("test")
    /\ frame = 0
    /\ host = HostFrame
    /\ ret = RetNone

FrameSetup ==
    /\ host.pc = "idle"
    /\ cpu' = [cpu EXCEPT !.memory = bus_writes(Enter(@), FrameSetupWrites, 1)]
    /\ host' = [host EXCEPT !.pc = "ready"]
    /\ ret' = Ret("setup", 0, 0, 0, TRUE)
    /\ UNCHANGED <<frame, profile>>

\* CpuMemory::write of $4017
FrameWrite(d) ==
    /\ host.pc = "ready" /\ host.ops < MaxFrameWrites
    /\ cpu.memory.apu.cycle % FRAME_COUNTER_PERIOD <= MaxWriteOffset
    /\ cpu' = [cpu EXCEPT !.memory = bus_write(Enter(@), \h4017, d)]
    /\ host' = [host EXCEPT !.ops = @ + 1]
    /\ ret' = Ret("write", \h4017, d, 0, TRUE)
    /\ UNCHANGED <<frame, profile>>

\* Apu::clock
FrameClock ==
    /\ host.pc = "ready" /\ cpu.memory.apu.cycle < MaxApuCycles
    /\ cpu' = [cpu EXCEPT !.memory.apu = apu_clock(@)]
    /\ ret' = Ret("apu_clock", 0, 0, 0, TRUE)
    /\ UNCHANGED <<frame, host, profile>>

NextFrame ==
    \/ FrameSetup
    \/ \E d \in FrameWrites : FrameWrite(d)
    \/ FrameClock

SpecFrame == InitFrame /\ [][NextFrame]_vars

\* what the quarter-frame and half-frame units hold
Envelopes(apu) ==
    << apu.pulse1.envelope_start, apu.pulse1.envelope_divider, apu.pulse1.envelope_counter,
       apu.pulse2.envelope_start, apu.pulse2.envelope_divider, apu.pulse2.envelope_counter,
       apu.noise.envelope_start, apu.noise.envelope_divider, apu.noise.envelope_counter,
       apu.triangle.linear_counter, apu.triangle.linear_counter_reload >>

Lengths(apu) ==
    << apu.pulse1.length_counter, apu.pulse2.length_counter,
       apu.triangle.length_counter, apu.noise.length_counter >>

\* new is old after one quarter frame / one half frame / neither
QuarterClocked(old, new) == Envelopes(new) = Envelopes(clock_quarter_frame(old))
HalfClocked(old, new) == Lengths(new) = Lengths(clock_half_frame(old))
Unclocked(old, new) == Envelopes(new) = Envelopes(old) /\ Lengths(new) = Lengths(old)

\* C34: the frame sequencer steps quarter, half, quarter, half in 4-step mode
\* and quarter, half, quarter, half, idle in 5-step mode, repeating; half
\* steps clock the length counters and idle clocks nothing; a $4017 write
\* resets the step index and in 5-step mode clocks a quarter and a half frame
\* at once; the step index stays below 4 in 4-step and below 5 in 5-step mode.
C34_FrameSequencerSteps ==
    /\ [](cpu.memory.apu.frame_step < IF cpu.memory.apu.frame_counter_mode THEN 5 ELSE 4)
    /\ [][LET old == cpu.memory.apu
              new == cpu'.memory.apu
              steps == IF old.frame_counter_mode THEN 5 ELSE 4
          IN  /\ (ret'.op = "apu_clock" /\ old.cycle % FRAME_COUNTER_PERIOD = 0) =>
                    /\ new.frame_step = (old.frame_step + 1) % steps
                    /\ new.frame_counter_mode = old.frame_counter_mode
                    /\ old.frame_step \in {0, 2} =>
                          QuarterClocked(old, new) /\ Lengths(new) = Lengths(old)
                    /\ old.frame_step \in {1, 3} =>
                          HalfClocked(old, new) /\ Lengths(new) # Lengths(old)
                    /\ old.frame_step = 4 => Unclocked(old, new)
              /\ (ret'.op = "apu_clock" /\ old.cycle % FRAME_COUNTER_PERIOD # 0) =>
                    /\ new.frame_step = old.frame_step
                    /\ Unclocked(old, new)
              /\ ret'.op = "write" =>
                    /\ new.frame_step = 0
                    /\ new.frame_counter_mode = (ret'.value >= \h80)
                    /\ IF ret'.value >= \h80
                       THEN /\ QuarterClocked(old, new)
                            /\ HalfClocked(clock_quarter_frame(old), new)
                            /\ Lengths(new) # Lengths(old)
                       ELSE Unclocked(old, new)]_vars

\* 5-step mode was selected after the first step; the five steps that
\* followed, the last one idle, brought the index back to 0 with the length
\* counters three half frames down from 254
C34_Witness ==
    /\ cpu.memory.apu.frame_counter_mode
    /\ cpu.memory.apu.cycle = MaxApuCycles
    /\ cpu.memory.apu.frame_step = 0
    /\ Lengths(cpu.memory.apu) = <<254, 251, 251, 251>>


\* ---------------------------------------------------------------------------
\* Length counters running out: the caller programs the three channels once
\* (halt flag set or clear, 4-step or 5-step sequencer, length 2) and from
\* then on only clocks the APU.
\* ---------------------------------------------------------------------------
DUTY_TABLE ==
    << <<0, 1, 0, 0, 0, 0, 0, 0>>, <<0, 1, 1, 0, 0, 0, 0, 0>>,
       <<0, 1, 1, 1, 1, 0, 0, 0>>, <<1, 0, 0, 1, 1, 1, 1, 1>> >>

\* PulseChannel::output
pulse_output(ch) ==
    IF ~ch.enabled \/ ch.length_counter = 0 THEN 0
    ELSE IF DUTY_TABLE[ch.duty + 1][ch.duty_position + 1] = 0 THEN 0
    ELSE IF ch.constant_volume THEN ch.volume ELSE ch.envelope_counter

\* NoiseChannel::output
noise_output(ch) ==
    IF ~ch.enabled \/ ch.length_counter = 0 \/ ch.shift_register % 2 # 0 THEN 0
    ELSE IF ch.constant_volume THEN ch.volume ELSE ch.envelope_counter

\* four frame-counter steps, the second half frame the last of them
MaxLengthCycles == 22373

LengthHalts == {\h00, \h20}
LengthModes == {\h00, \h80}

\* channels on, sequencer mode, constant volume 15 with the halt flag as
\* given (bit 5 for pulse and noise, bit 7 for triangle), length index 3
LengthSetupWrites(halt, mode) ==
    << <<\h4015, \h0F>>, <<\h4017, mode>>,
       <<\h4000, \h9F + halt>>, <<\h4008, \h7F + halt * 4>>, <<\h400C, \h1F + halt>>,
       <<\h4003, \h18>>, <<\h400B, \h18>>, <<\h400F, \h18>> >>

InitLength ==
    /\ profile \in Profiles
    /\ cpu = with_prg_rom("test")
    /\ frame = 0
    /\ host = HostFrame
    /\ ret = RetNone

LengthSetup(halt, mode) ==
    /\ host.pc = "idle"
    /\ cpu' = [cpu EXCEPT !.memory = bus_writes(Enter(@), LengthSetupWrites(halt, mode), 1)]
    /\ host' = [host EXCEPT !.pc = "ready"]
    /\ ret' = Ret("setup", 0, halt, 0, TRUE)
    /\ UNCHANGED <<frame, profile>>

\* Apu::clock
LengthClock ==
    /\ host.pc = "ready" /\ cpu.memory.apu.cycle < MaxLengthCycles
    /\ cpu' = [cpu EXCEPT !.memory.apu = apu_clock(@)]
    /\ ret' = Ret("apu_clock", 0, 0, 0, TRUE)
    /\ UNCHANGED <<frame, host, profile>>

NextLength ==
    \/ \E halt \in LengthHalts, mode \in LengthModes : LengthSetup(halt, mode)
    \/ LengthClock

SpecLength == InitLength /\ [][NextLength]_vars

\* the emulator's frame loop keeps clocking the APU
SpecLengthFair == SpecLength /\ WF_vars(LengthClock)

\* the channel's $4015 status bit
StatusBit(apu, mask) == (apu_read_register(apu, \h4015) \div mask) % 2

\* a tick of Apu::clock that clocks the length counters
HalfFrameTick(apu) ==
    apu.cycle % FRAME_COUNTER_PERIOD = 0 /\ apu.frame_step \in {1, 3}

\* C35: with the halt flag clear and no further writes, a pulse, triangle or
\* noise length counter goes down by one at each half-frame tick until it is
\* 0, never below, and then stays 0; from then on the pulse or noise output
\* is 0 and the channel's $4015 bit reads 0.
C35_LengthCounterRunsOut ==
    /\ [][ret'.op = "apu_clock" =>
            LET old == cpu.memory.apu
                new == cpu'.memory.apu
                Runs(o, n) ==
                    ~o.length_halt =>
                        /\ n.length_counter =
                              IF HalfFrameTick(old) /\ o.length_counter > 0
                              THEN o.length_counter - 1 ELSE o.length_counter
                        /\ n.length_counter \in 0 .. 254
            IN  /\ Runs(old.pulse1, new.pulse1) /\ Runs(old.pulse2, new.pulse2)
                /\ Runs(old.triangle, new.triangle) /\ Runs(old.noise, new.noise)]_vars
    /\ []((host.pc = "ready" /\ ~cpu.memory.apu.pulse1.length_halt) =>
            <>[](/\ cpu.memory.apu.pulse1.length_counter = 0
                 /\ pulse_output(cpu.memory.apu.pulse1) = 0
                 /\ StatusBit(cpu.memory.apu, 1) = 0))
    /\ []((host.pc = "ready" /\ ~cpu.memory.apu.triangle.length_halt) =>
            <>[](/\ cpu.memory.apu.triangle.length_counter = 0
                 /\ StatusBit(cpu.memory.apu, 4) = 0))
    /\ []((host.pc = "ready" /\ ~cpu.memory.apu.noise.length_halt) =>
            <>[](/\ cpu.memory.apu.noise.length_counter = 0
                 /\ noise_output(cpu.memory.apu.noise) = 0
                 /\ StatusBit(cpu.memory.apu, 8) = 0))

\* the counters were loaded with 2 with the halt flag clear and have run out
\* on the second half-frame tick
C35_Witness ==
    /\ host.pc = "ready"
    /\ cpu.memory.apu.cycle = 3 * FRAME_COUNTER_PERIOD + 1
    /\ ~cpu.memory.apu.frame_counter_mode
    /\ cpu.memory.apu.pulse1.enabled /\ ~cpu.memory.apu.pulse1.length_halt
    /\ cpu.memory.apu.pulse1.constant_volume /\ cpu.memory.apu.pulse1.volume = 15
    /\ cpu.memory.apu.pulse1.length_counter = 0
    /\ ~cpu.memory.apu.noise.length_halt /\ cpu.memory.apu.noise.length_counter = 0
    /\ ~cpu.memory.apu.triangle.length_halt /\ cpu.memory.apu.triangle.length_counter = 0
    /\ apu_read_register(cpu.memory.apu, \h4015) = 0


\* ---------------------------------------------------------------------------
\* Envelopes: the caller writes the envelope registers of pulse 1 and noise,
\* restarts the envelopes, and clocks quarter frames by writing $4017 with
\* the 5-step bit, which clocks one quarter frame at once.
\* ---------------------------------------------------------------------------
\* quarter frames since the last restart: the start, 15 down to 0, and 15 again
MaxEnvelopeTicks == 17

\* $4000: loop set with volume 0 or 1, or back to loop clear; $400C: loop set
EnvelopeWrites ==
    {<<\h4000, \h00>>, <<\h4000, \h20>>, <<\h4000, \h21>>, <<\h400C, \h20>>}

\* $4003 / $400F: restart the envelope
EnvelopeRestarts == {\h4003, \h400F}

InitEnvelope ==
    /\ profile \in Profiles
    /\ cpu = with_prg_rom("test")
    /\ frame = 0
    /\ host = [HostFrame EXCEPT !.pc = "ready"]
    /\ ret = RetNone

EnvelopeWrite(w) ==
    /\ cpu' = [cpu EXCEPT !.memory = bus_write(Enter(@), w[1], w[2])]
    /\ ret' = Ret("write", w[1], w[2], 0, TRUE)
    /\ UNCHANGED <<frame, host, profile>>

EnvelopeRestart(addr) ==
    /\ cpu' = [cpu EXCEPT !.memory = bus_write(Enter(@), addr, \h08)]
    /\ host' = [host EXCEPT !.ops = 0]
    /\ ret' = Ret("restart", addr, \h08, 0, TRUE)
    /\ UNCHANGED <<frame, profile>>

\* CpuMemory::write of $4017 <- $80: one quarter frame (and one half frame)
EnvelopeTick ==
    /\ host.ops < MaxEnvelopeTicks
    /\ cpu' = [cpu EXCEPT !.memory = bus_write(Enter(@), \h4017, \h80)]
    /\ host' = [host EXCEPT !.ops = @ + 1]
    /\ ret' = Ret("tick", \h4017, \h80, 0, TRUE)
    /\ UNCHANGED <<frame, profile>>

NextEnvelope ==
    \/ \E w \in EnvelopeWrites : EnvelopeWrite(w)
    \/ \E addr \in EnvelopeRestarts : EnvelopeRestart(addr)
    \/ EnvelopeTick

SpecEnvelope == InitEnvelope /\ [][NextEnvelope]_vars

\* one quarter-frame tick of an envelope, as the sentence has it
EnvelopeTicked(o, n) ==
    /\ n.volume = o.volume /\ n.length_halt = o.length_halt
    /\ IF o.envelope_start
       THEN ~n.envelope_start /\ n.envelope_counter = 15 /\ n.envelope_divider = o.volume
       ELSE /\ ~n.envelope_start
            /\ IF o.envelope_divider = 0
               THEN /\ n.envelope_divider = o.volume
                    /\ n.envelope_counter =
                          IF o.envelope_counter # 0 THEN o.envelope_counter - 1
                          ELSE IF o.length_halt THEN 15 ELSE 0
               ELSE /\ n.envelope_divider = o.envelope_divider - 1
                    /\ n.envelope_counter = o.envelope_counter
    /\ (~o.envelope_start /\ ~o.length_halt /\ o.envelope_counter = 0) =>
          n.envelope_counter = 0

\* C36: a quarter-frame tick with the start flag set clears it, sets the
\* decay counter to 15 and reloads the divider from the volume; otherwise the
\* divider counts down and at its reload point is reloaded while the decay
\* counter decrements, or goes back to 15 from 0 if the loop flag is set; the
\* decay counter is always in 0..15 and stays 0 when the loop flag is clear.
C36_EnvelopeDecay ==
    /\ [](/\ cpu.memory.apu.pulse1.envelope_counter \in 0 .. 15
          /\ cpu.memory.apu.pulse2.envelope_counter \in 0 .. 15
          /\ cpu.memory.apu.noise.envelope_counter \in 0 .. 15)
    /\ [][ret'.op = "tick" =>
            /\ EnvelopeTicked(cpu.memory.apu.pulse1, cpu'.memory.apu.pulse1)
            /\ EnvelopeTicked(cpu.memory.apu.pulse2, cpu'.memory.apu.pulse2)
            /\ EnvelopeTicked(cpu.memory.apu.noise, cpu'.memory.apu.noise)]_vars

\* pulse 1 loops with volume 0: seventeen quarter frames after the restart
\* its decay counter has gone from 15 to 0 and is 15 again
C36_Witness ==
    /\ host.ops = MaxEnvelopeTicks
    /\ ret.op = "tick"
    /\ cpu.memory.apu.pulse1.length_halt /\ cpu.memory.apu.pulse1.volume = 0
    /\ ~cpu.memory.apu.pulse1.envelope_start
    /\ cpu.memory.apu.pulse1.envelope_counter = 15
    /\ ~cpu.memory.apu.noise.length_halt /\ ~cpu.memory.apu.noise.envelope_start
    /\ cpu.memory.apu.noise.envelope_counter = 0


\* ---------------------------------------------------------------------------
\* The pulse sweep unit: the caller programs pulse 1 (duty 3, halt, constant
\* volume 15, a sweep setting, a timer period, length 254), then clocks the
\* APU and clocks half frames by writing $4017 with the 5-step bit.
\* ---------------------------------------------------------------------------
MaxSweepTicks == 2
MaxSweepCycles == 8

\* $4001: sweep off; sweep on with divider period 0, add mode, shift 1
SweepSettings == {\h00, \h81}
\* $4002: timer period 4 (below 8), 16, and $4003 high bits 7: period $7FF
SweepPeriods == {<<\h04, 0>>, <<\h10, 0>>, <<\hFF, 7>>}

SweepSetupWrites(sweep, period) ==
    << <<\h4015, \h01>>, <<\h4000, \hFF>>, <<\h4001, sweep>>,
       <<\h4002, period[1]>>, <<\h4003, \h08 + period[2]>> >>

InitSweep ==
    /\ profile \in Profiles
    /\ cpu = with_prg_rom("test")
    /\ frame = 0
    /\ host = HostFrame
    /\ ret = RetNone

SweepSetup(sweep, period) ==
    /\ host.pc = "idle"
    /\ cpu' = [cpu EXCEPT !.memory = bus_writes(Enter(@), SweepSetupWrites(sweep, period), 1)]
    /\ host' = [host EXCEPT !.pc = "ready"]
    /\ ret' = Ret("setup", 0, sweep, 0, TRUE)
    /\ UNCHANGED <<frame, profile>>

\* CpuMemory::write of $4017 <- $80: one quarter and one half frame
SweepTick ==
    /\ host.pc = "ready" /\ host.ops < MaxSweepTicks
    /\ cpu' = [cpu EXCEPT !.memory = bus_write(Enter(@), \h4017, \h80)]
    /\ host' = [host EXCEPT !.ops = @ + 1]
    /\ ret' = Ret("tick", \h4017, \h80, 0, TRUE)
    /\ UNCHANGED <<frame, profile>>

\* Apu::clock
SweepClock ==
    /\ host.pc = "ready" /\ cpu.memory.apu.cycle < MaxSweepCycles
    /\ cpu' = [cpu EXCEPT !.memory.apu = apu_clock(@)]
    /\ ret' = Ret("apu_clock", 0, 0, 0, TRUE)
    /\ UNCHANGED <<frame, host, profile>>

NextSweep ==
    \/ \E sweep \in SweepSettings, period \in SweepPeriods : SweepSetup(sweep, period)
    \/ SweepTick
    \/ SweepClock

SpecSweep == InitSweep /\ [][NextSweep]_vars

\* the period the sweep aims at: period +/- (period >> shift)
SweepTarget(ch) ==
    LET change == ch.timer_period \div (2 ^ ch.sweep_shift)
    IN  IF ch.sweep_negate THEN ch.timer_period - change ELSE ch.timer_period + change

SweepMutes(ch) == SweepTarget(ch) > \h7FF \/ SweepTarget(ch) < 8

\* C37: on a half-frame tick a pulse channel whose sweep is enabled with a
\* non-zero shift computes target = period +/- (period >> shift); a target
\* over 11 bits or below 8 mutes the channel (output 0); otherwise, when the
\* sweep divider underflows (with divider period 0: on every half-frame
\* tick), the timer period becomes the target.
C37_SweepUnit ==
    /\ [](LET ch == cpu.memory.apu.pulse1
          IN  (host.ops > 0 /\ ch.sweep_enabled /\ ch.sweep_shift # 0 /\ SweepMutes(ch))
                 => pulse_output(ch) = 0)
    /\ [][LET o == cpu.memory.apu.pulse1
              n == cpu'.memory.apu.pulse1
          IN  (/\ ret'.op = "tick"
               /\ o.sweep_enabled /\ o.sweep_shift # 0 /\ o.sweep_period = 0
               /\ ~SweepMutes(o))
                 => n.timer_period = SweepTarget(o)]_vars


\* ---------------------------------------------------------------------------
\* The PPU's position counter (SpecPpu).
\* ---------------------------------------------------------------------------
\* the position in row-major order, 341 dots to a scanline
DotIndex(ppu) == ppu.scanline * 341 + ppu.cycle

\* C38: the scanline is always in 0..261 and the dot in 0..340; each tick
\* advances the position by one dot in row-major order, and the frame
\* counter goes up by one exactly on the tick that wraps 261:340 to 0:0,
\* that is once every 262 * 341 = 89,342 ticks.
C38_DotCounter ==
    /\ [](/\ cpu.memory.ppu.scanline \in 0 .. 261
          /\ cpu.memory.ppu.cycle \in 0 .. 340)
    /\ [][LET old == cpu.memory.ppu
              new == cpu'.memory.ppu
          IN  IF ret'.op = "tick"
              THEN /\ DotIndex(new) =
                         (DotIndex(old) + 1) % (262 * 341)
                   /\ new.frame = IF At(old, 261, 340) THEN old.frame + 1 ELSE old.frame
                   /\ (new.frame # old.frame) = At(new, 0, 0)
              ELSE DotIndex(new) = DotIndex(old) /\ new.frame = old.frame]_vars

\* the 89,342nd tick from power-on has wrapped the position and counted the
\* first frame
C38_Witness ==
    /\ ret.op = "tick"
    /\ At(cpu.memory.ppu, 0, 0)
    /\ cpu.memory.ppu.frame = 1


C40_StrobeWriteShiftsNothing ==
    /\ [](cpu.memory.controller1.strobe = cpu.memory.controller2.strobe)
    /\ [][(/\ ret'.op = "write" /\ ret'.addr = \h4016
           /\ ~(cpu.memory.controller1.strobe /\ ret'.value % 2 = 0))
             => /\ cpu'.memory.controller1.shift_register =
                      cpu.memory.controller1.shift_register
                /\ cpu'.memory.controller2.shift_register =
                      cpu.memory.controller2.shift_register]_vars

=============================================================================
